---- MODULE Spec2Model ----
(***************************************************************************)
(* A model of NginxBlockManager (src/src/NginxBlockManager.ts).            *)
(*                                                                         *)
(* The stored document of a domain is the tree the nginx-conf parser       *)
(* builds from the file's text: a sequence of nodes in textual order, each *)
(* with a name, a value (a sequence of space separated tokens) and the     *)
(* nodes between its braces.  Comments, white space and the empty          *)
(* statement (a lone ";") carry no name and no value and are not part of   *)
(* the tree.                                                               *)
(*                                                                         *)
(* In memory, NginxConfFile.create turns that tree into nested objects:    *)
(* an item holds its value and, per child name, the array of the children  *)
(* with that name; the names are the object's own keys, in the order in    *)
(* which they were first added.  An item is modelled as                    *)
(*     [value |-> tokens, props |-> <<[name |-> n, items |-> <<item>>]>>]  *)
(* flush() writes the items back key by key, array by array.               *)
(***************************************************************************)
EXTENDS Naturals, Sequences, FiniteSets, TLC

VARIABLES
    files,      \* sites-available: domain -> [exists, doc], the stored document
    enabled,    \* sites-enabled: the domains that have a symlink
    last,       \* the call that ended last: what it was, how it ended, its result
    written,    \* what the calls so far have given each key (see Written)
    calls       \* overlapping callers: caller -> its call in flight

vars == <<files, enabled, last, written, calls>>

\* A domain without a config file.
NoFile == [exists |-> FALSE, doc |-> <<>>]
File(doc) == [exists |-> TRUE, doc |-> doc]

\* A call's result is a sequence: empty for void and for null, else one element.
Null == <<>>
Some(x) == <<x>>

----------------------------------------------------------------------------
(* Bounds of the model and the inputs the calls are drawn from.            *)

MaxLocations == 2           \* location blocks per server block, editing runs
MaxRenameLocations == 3     \* location blocks per server block, location runs
MaxNodes == 6               \* blocks and directives per file, blank-key runs
MaxNames == 2               \* names of server_name when a subdomain is added, overlapping runs

Domain == "a.com"
Domains == {Domain}
OtherDomain == "b.com"
TwoDomains == {Domain, OtherDomain}
ThirdDomain == "c.com"
ThreeDomains == {Domain, OtherDomain, ThirdDomain}

ServerKeys == {"root"}
MixedKeys == {"root", "index"}
MixedValues == {<<"v1">>}
LocationKeys == {"alias"}
Values == {<<"v1">>, <<"v2">>}
Selectors == {"/", "/api"}
RenameSelectors == {"/", "/api", "/static"}
Subdomains == {"api"}
SubNames == {"api", "www", "dev"}
NameSubdomains == {"api", "www"}
NameValues == {<<Domain>>, <<Domain, Domain>>, <<"b.com", Domain>>}

----------------------------------------------------------------------------
(* The nginx-conf object model, as the manager uses it.                    *)

Item(value) == [value |-> value, props |-> <<>>]

\* Position of the own key `name` among the keys of an item, 0 when absent.
KeyIndex(props, name) ==
    IF \E i \in 1..Len(props) : props[i].name = name
    THEN CHOOSE i \in 1..Len(props) : props[i].name = name
    ELSE 0

\* block[key] !== undefined
keyExists(props, name) == KeyIndex(props, name) # 0

\* block[key] ?? []
ItemsOf(props, name) ==
    IF keyExists(props, name) THEN props[KeyIndex(props, name)].items ELSE <<>>

\* The createConfItem that puts a child before its namesakes.
AddItemInFront(props, name, item) ==
    IF keyExists(props, name)
    THEN [props EXCEPT ![KeyIndex(props, name)].items = <<item>> \o @]
    ELSE Append(props, [name |-> name, items |-> <<item>>])

\* What createConfItem does with one child: push onto block[name], or make
\* block[name] a new array, which becomes the last own key.
AddItem(props, name, item) ==
    IF keyExists(props, name)
    THEN [props EXCEPT ![KeyIndex(props, name)].items = Append(@, item)]
    ELSE Append(props, [name |-> name, items |-> <<item>>])

\* block._add(name, value)
BlockAdd(props, name, value) == AddItem(props, name, Item(value))

RemoveAt(seq, i) == SubSeq(seq, 1, i - 1) \o SubSeq(seq, i + 1, Len(seq))

\* block._remove(name, index): index counts from 0; the array loses that
\* element, and the key goes with the last element.
BlockRemove(props, name, index) ==
    LET k == KeyIndex(props, name) IN
    IF k = 0 \/ index + 1 > Len(props[k].items) THEN props
    ELSE IF Len(props[k].items) = 1 THEN RemoveAt(props, k)
    ELSE [props EXCEPT ![k].items = RemoveAt(@, index + 1)]

\* block[key][0]._value = newValue
SetFirstValue(props, name, value) ==
    [props EXCEPT ![KeyIndex(props, name)].items[1].value = value]

\* block[key][0]._value
FirstValue(props, name) == props[KeyIndex(props, name)].items[1].value

----------------------------------------------------------------------------
(* NginxConfFile.create (text -> objects) and flush (objects -> text).     *)

RECURSIVE ParseNodes(_, _)
\* createConfItem over the children of a parsed node, in textual order.
ParseNodes(nodes, props) ==
    IF nodes = <<>> THEN props
    ELSE ParseNodes(Tail(nodes),
            AddItem(props, Head(nodes).name,
                [value |-> Head(nodes).value,
                 props |-> ParseNodes(Head(nodes).children, <<>>)]))

Parse(doc) == ParseNodes(doc, <<>>)

\* The value as the parser reads it back from the written text.  addLocation
\* adds its block as the value "<path> {}": the text "location <path> {};"
\* parses to a location whose value is <path> and whose body is empty.
RECURSIVE Trim(_)
\* context.value.trim(): an empty token stands for the gap between two
\* adjacent spaces, and the parser drops the spaces at both ends.
Trim(value) ==
    IF value = <<>> THEN value
    ELSE IF Head(value) = "" THEN Trim(Tail(value))
    ELSE IF value[Len(value)] = "" THEN Trim(SubSeq(value, 1, Len(value) - 1))
    ELSE value

StoredValue(value) ==
    LET v == Trim(value) IN
    IF Len(v) > 0 /\ v[Len(v)] = "{}" THEN SubSeq(v, 1, Len(v) - 1) ELSE v

\* The statement "<name> <value>;" as it is read back: written with an empty
\* name, its first word is read as the name.
Statement(name, value, children) ==
    IF name # "" THEN <<[name |-> name, value |-> value, children |-> children]>>
    ELSE IF value = <<>> THEN <<>>
    ELSE <<[name |-> Head(value), value |-> Tail(value), children |-> children]>>

RECURSIVE ToNodes(_)
RECURSIVE ItemsToNodes(_, _)
\* _getString: the own keys in order, and for each key its array in order.
ItemsToNodes(name, items) ==
    IF items = <<>> THEN <<>>
    ELSE Statement(name, StoredValue(Head(items).value), ToNodes(Head(items).props))
         \o ItemsToNodes(name, Tail(items))

ToNodes(props) ==
    IF props = <<>> THEN <<>>
    ELSE ItemsToNodes(Head(props).name, Head(props).items) \o ToNodes(Tail(props))

\* The document written by flush(), as the next NginxConfFile.create reads it.
Flush(conf) == ToNodes(conf)

----------------------------------------------------------------------------
(* createConfigFile's template.                                            *)

Directive(key, value) == [name |-> key, value |-> value, children |-> <<>>]

Template(domain) ==
    <<[name |-> "server", value |-> <<>>,
       children |-> <<Directive("listen", <<"80">>),
                      Directive("server_name", <<domain>>)>>]>>

----------------------------------------------------------------------------
(* The callbacks the public operations hand to processServerBlock.  A      *)
(* callback is described by a record cb; `type` names the operation.       *)

\* The add without its keyExists guard.
addKeyAlways(props, key, value) == BlockAdd(props, key, value)

\* addKeyToServer / addKeyToLocation: if (!keyExists) block._add(key, value)
addKeyCallback(props, key, value) ==
    IF keyExists(props, key) THEN props ELSE BlockAdd(props, key, value)

\* The update that leaves the old value.
updateKeyIgnored(props, key, newValue) == props

\* The update that adds the key it does not find.
updateKeyOrAdd(props, key, newValue) ==
    IF keyExists(props, key) THEN SetFirstValue(props, key, newValue)
    ELSE BlockAdd(props, key, newValue)

\* updateKeyInServer / updateKeyInLocation:
\* if (keyExists) block[key][0]._value = newValue
updateKeyCallback(props, key, newValue) ==
    IF keyExists(props, key) THEN SetFirstValue(props, key, newValue) ELSE props

\* deleteKeyFromServer / deleteKeyFromLocation: if (keyExists) block._remove(key)
deleteKeyCallback(props, key) ==
    IF keyExists(props, key) THEN BlockRemove(props, key, 0) ELSE props

RECURSIVE addMultipleCallback(_, _)
\* for (const key in keyValuePairs) { if (!keyExists) block._add(key, value) }
addMultipleCallback(props, pairs) ==
    IF pairs = <<>> THEN props
    ELSE addMultipleCallback(
            addKeyCallback(props, Head(pairs).key, Head(pairs).value), Tail(pairs))

RECURSIVE updateMultipleCallback(_, _)
updateMultipleCallback(props, pairs) ==
    IF pairs = <<>> THEN props
    ELSE updateMultipleCallback(
            updateKeyCallback(props, Head(pairs).key, Head(pairs).value), Tail(pairs))

RECURSIVE deleteMultipleCallback(_, _)
\* for (const key of keys) { if (keyExists) block._remove(key) }
deleteMultipleCallback(props, keys) ==
    IF keys = <<>> THEN props
    ELSE deleteMultipleCallback(deleteKeyCallback(props, Head(keys)), Tail(keys))

\* The effect of a directive callback on the block it is given.
BlockCallback(cb, props) ==
    CASE cb.type = "addKey" -> addKeyCallback(props, cb.key, cb.value)
      [] cb.type = "updateKey" -> updateKeyCallback(props, cb.key, cb.value)
      [] cb.type = "deleteKey" -> deleteKeyCallback(props, cb.key)
      [] cb.type = "addMultiple" -> addMultipleCallback(props, cb.pairs)
      [] cb.type = "updateMultiple" -> updateMultipleCallback(props, cb.pairs)
      [] cb.type = "deleteMultiple" -> deleteMultipleCallback(props, cb.keys)
      [] OTHER -> props

\* The server blocks of a parsed file: conf.nginx.server ?? []
Servers(conf) == ItemsOf(conf, "server")

\* conf.nginx with its server blocks replaced one for one.
WithServers(conf, servers) ==
    IF keyExists(conf, "server")
    THEN [conf EXCEPT ![KeyIndex(conf, "server")].items = servers]
    ELSE conf

\* The callback run on the first server block only.
processFirstServerBlock(doc, cb) ==
    LET conf == Parse(doc)
        servers == Servers(conf)
    IN  Flush(WithServers(conf,
            [i \in 1..Len(servers) |->
                IF i = 1 THEN [servers[i] EXCEPT !.props = BlockCallback(cb, @)]
                ELSE servers[i]]))

\* processServerBlock: the callback runs on each server block of the file,
\* then the file is flushed.
processServerBlock(doc, cb) ==
    LET conf == Parse(doc)
        servers == Servers(conf)
    IN  Flush(WithServers(conf,
            [i \in 1..Len(servers) |->
                [servers[i] EXCEPT !.props = BlockCallback(cb, @)]]))

----------------------------------------------------------------------------
(* processLocationBlocks and its callbacks.                                *)

\* locationBlock?._value === location
IsLocation(item, location) == item.value = <<location>>

\* The server block with its location number `index` (from 0) replaced.
WithLocation(props, index, item) ==
    [props EXCEPT ![KeyIndex(props, "location")].items[index + 1] = item]

\* The rename that first looks for a sibling with the new selector.
LocationCallbackIfFree(cb, props, index) ==
    LET locationBlock == ItemsOf(props, "location")[index + 1]
        taken == \E i \in 1..Len(ItemsOf(props, "location")) :
                    cb.type = "updateLocation"
                    /\ IsLocation(ItemsOf(props, "location")[i], cb.to)
    IN
    IF ~IsLocation(locationBlock, cb.location) \/ taken THEN props
    ELSE CASE cb.type = "deleteLocation" -> BlockRemove(props, "location", index)
           [] cb.type = "updateLocation" ->
                WithLocation(props, index, [locationBlock EXCEPT !.value = <<cb.to>>])
           [] OTHER ->
                WithLocation(props, index,
                    [locationBlock EXCEPT !.props = BlockCallback(cb, @)])

\* The callback without its selector test.
LocationCallbackAll(cb, props, index) ==
    LET locationBlock == ItemsOf(props, "location")[index + 1] IN
    CASE cb.type = "deleteLocation" -> BlockRemove(props, "location", index)
      [] cb.type = "updateLocation" ->
            WithLocation(props, index, [locationBlock EXCEPT !.value = <<cb.to>>])
      [] OTHER ->
            WithLocation(props, index,
                [locationBlock EXCEPT !.props = BlockCallback(cb, @)])

\* One call of a location callback: (server, locationBlock, index).
LocationCallback(cb, props, index) ==
    LET locationBlock == ItemsOf(props, "location")[index + 1] IN
    IF ~IsLocation(locationBlock, cb.location) THEN props
    ELSE CASE cb.type = "deleteLocation" -> BlockRemove(props, "location", index)
           [] cb.type = "updateLocation" ->
                WithLocation(props, index, [locationBlock EXCEPT !.value = <<cb.to>>])
           [] OTHER ->
                WithLocation(props, index,
                    [locationBlock EXCEPT !.props = BlockCallback(cb, @)])

RECURSIVE LocationLoop(_, _, _)
\* for (let index = 0; index < locations.length; index++) callback(...)
\* `locations` is the server's own array: a removal shortens it under the loop.
LocationLoop(cb, props, index) ==
    IF index >= Len(ItemsOf(props, "location")) THEN props
    ELSE LocationLoop(cb, LocationCallback(cb, props, index), index + 1)

\* processLocationBlocks: the callback runs on each location block of each
\* server block of the file, then the file is flushed.
processLocationBlocks(doc, cb) ==
    LET conf == Parse(doc)
        servers == Servers(conf)
    IN  Flush(WithServers(conf,
            [i \in 1..Len(servers) |->
                [servers[i] EXCEPT !.props = LocationLoop(cb, @, 0)]]))

----------------------------------------------------------------------------
(* What the query callbacks leave in their result variable.                *)

RECURSIVE KeyValueOfServers(_, _, _)
\* getKeyValueFromServer: if (keyExists) keyValue = server[key][0]._value,
\* for each server block in turn.
KeyValueOfServers(servers, key, keyValue) ==
    IF servers = <<>> THEN keyValue
    ELSE KeyValueOfServers(Tail(servers), key,
            IF keyExists(Head(servers).props, key)
            THEN Some(FirstValue(Head(servers).props, key))
            ELSE keyValue)

RECURSIVE KeyValueOfLocations(_, _, _, _)
KeyValueOfLocations(locations, location, key, keyValue) ==
    IF locations = <<>> THEN keyValue
    ELSE KeyValueOfLocations(Tail(locations), location, key,
            IF IsLocation(Head(locations), location)
               /\ keyExists(Head(locations).props, key)
            THEN Some(FirstValue(Head(locations).props, key))
            ELSE keyValue)

RECURSIVE KeyValueOfServerLocations(_, _, _, _)
\* getKeyValueFromLocation: the same assignment, for each matching location
\* block of each server block in turn.
KeyValueOfServerLocations(servers, location, key, keyValue) ==
    IF servers = <<>> THEN keyValue
    ELSE KeyValueOfServerLocations(Tail(servers), location, key,
            KeyValueOfLocations(ItemsOf(Head(servers).props, "location"),
                                location, key, keyValue))

RECURSIVE LocationPaths(_)
\* getAllLocations: if (locationPath) locations.push(locationPath)
LocationPaths(servers) ==
    IF servers = <<>> THEN <<>>
    ELSE LET locs == ItemsOf(Head(servers).props, "location") IN
         SelectSeq([i \in 1..Len(locs) |-> locs[i].value], LAMBDA v : v # <<>>)
         \o LocationPaths(Tail(servers))

\* keyValues[key] = value on a plain object: a new key goes last, a key the
\* object has keeps its place.
AssignKey(keyValues, key, value) ==
    IF \E i \in 1..Len(keyValues) : keyValues[i].key = key
    THEN [i \in 1..Len(keyValues) |->
            IF keyValues[i].key = key THEN [key |-> key, value |-> value]
            ELSE keyValues[i]]
    ELSE Append(keyValues, [key |-> key, value |-> value])

RECURSIVE KeyValuesOf(_, _)
\* for (const key in block) if (hasOwnProperty && typeof !== 'function')
\*     keyValues[key] = block[key][0]._value
KeyValuesOf(props, keyValues) ==
    IF props = <<>> THEN keyValues
    ELSE KeyValuesOf(Tail(props),
            AssignKey(keyValues, Head(props).name, Head(props).items[1].value))

RECURSIVE AllKeyValuesOfServers(_, _)
\* getAllKeyValuesFromServer: the same object is filled from each server block.
AllKeyValuesOfServers(servers, keyValues) ==
    IF servers = <<>> THEN keyValues
    ELSE AllKeyValuesOfServers(Tail(servers),
            KeyValuesOf(Head(servers).props, keyValues))

RECURSIVE AllKeyValuesOfFilledLocations(_, _, _)
\* The loop that makes no object for a location block without directives.
AllKeyValuesOfFilledLocations(locations, location, keyValues) ==
    IF locations = <<>> THEN keyValues
    ELSE AllKeyValuesOfFilledLocations(Tail(locations), location,
            IF IsLocation(Head(locations), location) /\ Head(locations).props # <<>>
            THEN Some(KeyValuesOf(Head(locations).props, <<>>))
            ELSE keyValues)

RECURSIVE AllKeyValuesOfLocations(_, _, _)
\* getAllKeyValuesFromLocation: keyValues = {} and the loop, for each
\* matching location block in turn.
AllKeyValuesOfLocations(locations, location, keyValues) ==
    IF locations = <<>> THEN keyValues
    ELSE AllKeyValuesOfLocations(Tail(locations), location,
            IF IsLocation(Head(locations), location)
            THEN Some(KeyValuesOf(Head(locations).props, <<>>))
            ELSE keyValues)

RECURSIVE AllKeyValuesOfServerLocations(_, _, _)
AllKeyValuesOfServerLocations(servers, location, keyValues) ==
    IF servers = <<>> THEN keyValues
    ELSE AllKeyValuesOfServerLocations(Tail(servers), location,
            AllKeyValuesOfLocations(ItemsOf(Head(servers).props, "location"),
                                    location, keyValues))

----------------------------------------------------------------------------
(* The public operations, each as one step of a sequential run.            *)

\* The record of a call: its name and arguments, how it ended and its result.
Call(op, domain) ==
    [op |-> op, domain |-> domain, location |-> "", key |-> "", value |-> <<>>,
     to |-> "", pairs |-> <<>>, keys |-> <<>>,
     outcome |-> "pending", ret |-> Null]

\* The callers whose calls may overlap, and a caller that has made no call.
Callers == {1, 2}

Idle ==
    [phase |-> "idle", call |-> Call("", ""), round |-> 0,
     snapshot |-> <<>>, flights |-> <<>>]

NoCalls == [c \in Callers |-> Idle]

\* The call rejects: nothing is written.
Rejects(call) ==
    /\ last' = [call EXCEPT !.outcome = "rejected"]
    /\ UNCHANGED <<files, enabled>>

\* The call resolves with `ret` after `doc` was written to the domain's file.
Resolves(call, doc, ret) ==
    /\ files' = [files EXCEPT ![call.domain] = File(doc)]
    /\ last' = [call EXCEPT !.outcome = "resolved", !.ret = ret]
    /\ UNCHANGED enabled

\* NginxConfFile.create fails on a missing file and the promise rejects;
\* otherwise the callbacks run and the flushed file resolves it.
\* processServerBlock on a file that is made when it is missing.
ThroughServerBlockCreating(call, cb, ret) ==
    Resolves(call, processServerBlock(files[call.domain].doc, cb), ret)

ThroughServerBlock(call, cb, ret) ==
    IF ~files[call.domain].exists THEN Rejects(call)
    ELSE Resolves(call, processServerBlock(files[call.domain].doc, cb), ret)

ThroughLocationBlocks(call, cb, ret) ==
    IF ~files[call.domain].exists THEN Rejects(call)
    ELSE Resolves(call, processLocationBlocks(files[call.domain].doc, cb), ret)

\* The createConfigFile that writes the template over a file that exists.
createConfigFileOver(domain) ==
    LET call == Call("createConfigFile", domain) IN
    IF domain = "" THEN Rejects(call)
    ELSE Resolves(call, Template(domain), Null)

createConfigFile(domain) ==
    LET call == Call("createConfigFile", domain) IN
    IF domain = "" THEN Rejects(call)
    ELSE IF files[domain].exists THEN Rejects(call)
    ELSE Resolves(call, Template(domain), Null)

deleteConfigFile(domain) ==
    LET call == Call("deleteConfigFile", domain) IN
    IF ~files[domain].exists THEN Rejects(call)
    ELSE /\ files' = [files EXCEPT ![domain] = NoFile]
         /\ last' = [call EXCEPT !.outcome = "resolved"]
         /\ UNCHANGED enabled

\* fse.pathExists(symlinkPath): true when the link is there and leads to a
\* file, for pathExists follows the link.
Enabled(fs, links, domain) == domain \in links /\ fs[domain].exists

\* The call resolves with `ret`; no file and no link is touched.
Answers(call, ret) ==
    /\ last' = [call EXCEPT !.outcome = "resolved", !.ret = ret]
    /\ UNCHANGED <<files, enabled>>

checkConfigFileExists(domain) ==
    Answers(Call("checkConfigFileExists", domain), Some(files[domain].exists))

checkConfigFileEnabled(domain) ==
    Answers(Call("checkConfigFileEnabled", domain),
            Some(Enabled(files, enabled, domain)))

\* The enableConfigFile that makes the link whether or not the file exists.
enableConfigFileUnchecked(domain) ==
    LET call == Call("enableConfigFile", domain) IN
    /\ enabled' = enabled \cup {domain}
    /\ last' = [call EXCEPT !.outcome = "resolved"]
    /\ UNCHANGED files

enableConfigFile(domain) ==
    LET call == Call("enableConfigFile", domain) IN
    IF ~files[domain].exists THEN Rejects(call)
    ELSE IF Enabled(files, enabled, domain) THEN Answers(call, Null)
    ELSE /\ enabled' = enabled \cup {domain}
         /\ last' = [call EXCEPT !.outcome = "resolved"]
         /\ UNCHANGED files

\* The disableConfigFile that empties sites-enabled.
disableConfigFileAll(domain) ==
    LET call == Call("disableConfigFile", domain) IN
    IF ~Enabled(files, enabled, domain) THEN Rejects(call)
    ELSE /\ enabled' = {}
         /\ last' = [call EXCEPT !.outcome = "resolved"]
         /\ UNCHANGED files

disableConfigFile(domain) ==
    LET call == Call("disableConfigFile", domain) IN
    IF ~Enabled(files, enabled, domain) THEN Rejects(call)
    ELSE /\ enabled' = enabled \ {domain}
         /\ last' = [call EXCEPT !.outcome = "resolved"]
         /\ UNCHANGED files

\* The updateConfigFile that renames onto a file that exists.
updateConfigFileOver(domain, newDomain) ==
    LET call == [Call("updateConfigFile", domain) EXCEPT !.to = newDomain] IN
    IF newDomain = "" \/ domain = "" THEN Rejects(call)
    ELSE IF ~files[domain].exists THEN Rejects(call)
    ELSE IF Enabled(files, enabled, domain) THEN Rejects(call)
    ELSE /\ files' = [files EXCEPT ![domain] = NoFile, ![newDomain] = files[domain]]
         /\ last' = [call EXCEPT !.outcome = "resolved"]
         /\ UNCHANGED enabled

updateConfigFile(domain, newDomain) ==
    LET call == [Call("updateConfigFile", domain) EXCEPT !.to = newDomain] IN
    IF newDomain = "" \/ domain = "" THEN Rejects(call)
    ELSE IF ~files[domain].exists THEN Rejects(call)
    ELSE IF Enabled(files, enabled, domain) THEN Rejects(call)
    ELSE IF files[newDomain].exists THEN Rejects(call)
    ELSE /\ files' = [files EXCEPT ![domain] = NoFile, ![newDomain] = files[domain]]
         /\ last' = [call EXCEPT !.outcome = "resolved"]
         /\ UNCHANGED enabled

addKeyToServer(domain, key, value) ==
    LET call == [Call("addKeyToServer", domain) EXCEPT !.key = key, !.value = value] IN
    IF key = "" THEN Rejects(call)
    ELSE ThroughServerBlock(call,
            [type |-> "addKey", key |-> key, value |-> value], Null)

updateKeyInServer(domain, key, newValue) ==
    LET call == [Call("updateKeyInServer", domain) EXCEPT !.key = key, !.value = newValue] IN
    ThroughServerBlock(call,
        [type |-> "updateKey", key |-> key, value |-> newValue], Null)

deleteKeyFromServer(domain, key) ==
    LET call == [Call("deleteKeyFromServer", domain) EXCEPT !.key = key] IN
    ThroughServerBlock(call, [type |-> "deleteKey", key |-> key], Null)

addMultipleKeysToServer(domain, keyValuePairs) ==
    LET call == [Call("addMultipleKeysToServer", domain) EXCEPT !.pairs = keyValuePairs] IN
    ThroughServerBlock(call, [type |-> "addMultiple", pairs |-> keyValuePairs], Null)

updateMultipleKeysInServer(domain, keyValuePairs) ==
    LET call == [Call("updateMultipleKeysInServer", domain) EXCEPT !.pairs = keyValuePairs] IN
    ThroughServerBlock(call, [type |-> "updateMultiple", pairs |-> keyValuePairs], Null)

deleteMultipleKeysFromServer(domain, keys) ==
    LET call == [Call("deleteMultipleKeysFromServer", domain) EXCEPT !.keys = keys] IN
    ThroughServerBlock(call, [type |-> "deleteMultiple", keys |-> keys], Null)

getKeyValueFromServer(domain, key) ==
    LET call == [Call("getKeyValueFromServer", domain) EXCEPT !.key = key] IN
    ThroughServerBlock(call, [type |-> "get"],
        KeyValueOfServers(Servers(Parse(files[domain].doc)), key, Null))

getAllLocations(domain) ==
    LET call == Call("getAllLocations", domain) IN
    ThroughServerBlock(call, [type |-> "get"],
        Some(LocationPaths(Servers(Parse(files[domain].doc)))))

\* The location blocks the duplicate check of addLocation looks at:
\* conf?.nginx?.server?.[0]?.location ?? []
FirstServerLocations(conf) ==
    IF Servers(conf) = <<>> THEN <<>> ELSE ItemsOf(Servers(conf)[1].props, "location")

\* The duplicate check that looks at the first location only.
HasLocationFirstOnly(locations, location) ==
    locations # <<>> /\ IsLocation(locations[1], location)

\* The loop of addLocation's duplicate check: locationPath === location
HasLocation(locations, location) ==
    \E i \in 1..Len(locations) : IsLocation(locations[i], location)

addLocation(domain, location) ==
    LET call == [Call("addLocation", domain) EXCEPT !.location = location]
        conf == Parse(files[domain].doc)
        servers == Servers(conf)
        locations == FirstServerLocations(conf)
    IN  IF location = "" THEN Rejects(call)
        ELSE IF ~files[domain].exists THEN Rejects(call)
        ELSE IF HasLocation(locations, location) THEN Rejects(call)
        ELSE IF servers = <<>>
        THEN \* serverBlock is undefined: nothing is added, nothing is flushed
             \* and the promise is never settled
             last' = call /\ UNCHANGED <<files, enabled>>
        ELSE Resolves(call,
                Flush(WithServers(conf,
                    [servers EXCEPT ![1].props =
                        BlockAdd(@, "location", <<location, "{}">>)])),
                Null)

deleteLocation(domain, location) ==
    LET call == [Call("deleteLocation", domain) EXCEPT !.location = location] IN
    ThroughLocationBlocks(call,
        [type |-> "deleteLocation", location |-> location], Null)

updateLocation(domain, oldLocation, newLocation) ==
    LET call == [Call("updateLocation", domain) EXCEPT
                    !.location = oldLocation, !.to = newLocation] IN
    ThroughLocationBlocks(call,
        [type |-> "updateLocation", location |-> oldLocation, to |-> newLocation],
        Null)

addKeyToLocation(domain, location, key, value) ==
    LET call == [Call("addKeyToLocation", domain) EXCEPT
                    !.location = location, !.key = key, !.value = value] IN
    ThroughLocationBlocks(call,
        [type |-> "addKey", location |-> location, key |-> key, value |-> value],
        Null)

addMultipleKeysToLocation(domain, location, keyValues) ==
    LET call == [Call("addMultipleKeysToLocation", domain) EXCEPT
                    !.location = location, !.pairs = keyValues] IN
    ThroughLocationBlocks(call,
        [type |-> "addMultiple", location |-> location, pairs |-> keyValues], Null)

updateKeyInLocation(domain, location, key, newValue) ==
    LET call == [Call("updateKeyInLocation", domain) EXCEPT
                    !.location = location, !.key = key, !.value = newValue] IN
    ThroughLocationBlocks(call,
        [type |-> "updateKey", location |-> location, key |-> key,
         value |-> newValue], Null)

deleteKeyFromLocation(domain, location, key) ==
    LET call == [Call("deleteKeyFromLocation", domain) EXCEPT
                    !.location = location, !.key = key] IN
    ThroughLocationBlocks(call,
        [type |-> "deleteKey", location |-> location, key |-> key], Null)

updateMultipleKeysInLocation(domain, location, keyValues) ==
    LET call == [Call("updateMultipleKeysInLocation", domain) EXCEPT
                    !.location = location, !.pairs = keyValues] IN
    ThroughLocationBlocks(call,
        [type |-> "updateMultiple", location |-> location, pairs |-> keyValues], Null)

deleteMultipleKeysFromLocation(domain, location, keys) ==
    LET call == [Call("deleteMultipleKeysFromLocation", domain) EXCEPT
                    !.location = location, !.keys = keys] IN
    ThroughLocationBlocks(call,
        [type |-> "deleteMultiple", location |-> location, keys |-> keys], Null)

getKeyValueFromLocation(domain, location, key) ==
    LET call == [Call("getKeyValueFromLocation", domain) EXCEPT
                    !.location = location, !.key = key] IN
    ThroughLocationBlocks(call, [type |-> "get", location |-> location],
        KeyValueOfServerLocations(Servers(Parse(files[domain].doc)),
                                  location, key, Null))

getAllKeyValuesFromServer(domain) ==
    LET call == Call("getAllKeyValuesFromServer", domain) IN
    ThroughServerBlock(call, [type |-> "get"],
        Some(AllKeyValuesOfServers(Servers(Parse(files[domain].doc)), <<>>)))

getAllKeyValuesFromLocation(domain, location) ==
    LET call == [Call("getAllKeyValuesFromLocation", domain) EXCEPT
                    !.location = location] IN
    ThroughLocationBlocks(call, [type |-> "get", location |-> location],
        AllKeyValuesOfServerLocations(Servers(Parse(files[domain].doc)),
                                      location, Null))

----------------------------------------------------------------------------
(* The subdomain helpers.  Each of their reads is a getKeyValueFromServer, *)
(* which goes through processServerBlock and so flushes the file.          *)

\* serverName?.split(' ') || []
Split(keyValue) ==
    IF keyValue = Null THEN <<>>
    ELSE IF keyValue[1] = <<>> THEN <<"">>
    ELSE keyValue[1]

\* The tokens of server_name with the domain left in.
SubdomainsOfAll(doc, domain) ==
    Split(KeyValueOfServers(Servers(Parse(doc)), "server_name", Null))

\* getSubdomains: every token of server_name except the domain itself.
SubdomainsOf(doc, domain) ==
    SelectSeq(Split(KeyValueOfServers(Servers(Parse(doc)), "server_name", Null)),
              LAMBDA t : t # domain)

\* `${subdomain}.${domain}`
fullSubDomain(domain, subdomain) == subdomain \o "." \o domain

Includes(seq, x) == \E i \in 1..Len(seq) : seq[i] = x

\* The index of the last element, whatever is looked for.
IndexOfLast(seq, x) == Len(seq)

\* subdomains.indexOf(x), from 0, or -1 which splice(-1, 1) reads as the last
IndexToSplice(seq, x) ==
    IF Includes(seq, x) THEN CHOOSE i \in 1..Len(seq) :
            seq[i] = x /\ \A j \in 1..(i - 1) : seq[j] # x
    ELSE Len(seq)

\* The file as a query leaves it: read, no change, flushed.
Queried(doc) == processServerBlock(doc, [type |-> "get"])

\* The call rejects after its queries have flushed the file.
RejectsAfterQuery(call) ==
    /\ files' = [files EXCEPT ![call.domain] = File(Queried(@.doc))]
    /\ last' = [call EXCEPT !.outcome = "rejected"]
    /\ UNCHANGED enabled

\* The addSubdomain that writes the subdomains without the domain before them.
addSubdomainNoBase(domain, subdomain) ==
    LET call == [Call("addSubdomain", domain) EXCEPT !.key = subdomain]
        doc == files[domain].doc
        full == fullSubDomain(domain, subdomain)
        subdomains == Append(SubdomainsOf(Queried(doc), domain), full)
    IN  IF ~files[domain].exists THEN Rejects(call)
        ELSE IF Includes(SubdomainsOf(doc, domain), full) THEN RejectsAfterQuery(call)
        ELSE Resolves(call,
                processServerBlock(Queried(Queried(doc)),
                    [type |-> "updateKey", key |-> "server_name",
                     value |-> subdomains]),
                Null)

addSubdomain(domain, subdomain) ==
    LET call == [Call("addSubdomain", domain) EXCEPT !.key = subdomain]
        doc == files[domain].doc
        full == fullSubDomain(domain, subdomain)
        subdomains == Append(SubdomainsOf(Queried(doc), domain), full)
    IN  IF ~files[domain].exists THEN Rejects(call)
        ELSE IF Includes(SubdomainsOf(doc, domain), full) THEN RejectsAfterQuery(call)
        ELSE Resolves(call,
                processServerBlock(Queried(Queried(doc)),
                    [type |-> "updateKey", key |-> "server_name",
                     value |-> <<domain>> \o subdomains]),
                Null)

deleteSubdomain(domain, subdomain) ==
    LET call == [Call("deleteSubdomain", domain) EXCEPT !.key = subdomain]
        doc == files[domain].doc
        full == fullSubDomain(domain, subdomain)
        tokens == Split(KeyValueOfServers(Servers(Parse(Queried(doc))),
                                          "server_name", Null))
    IN  IF ~files[domain].exists THEN Rejects(call)
        ELSE IF ~Includes(SubdomainsOf(doc, domain), full) THEN RejectsAfterQuery(call)
        ELSE Resolves(call,
                processServerBlock(Queried(Queried(doc)),
                    [type |-> "updateKey", key |-> "server_name",
                     value |-> RemoveAt(tokens, IndexToSplice(tokens, full))]),
                Null)

checkSubdomainExists(domain, subdomain) ==
    LET call == [Call("checkSubdomainExists", domain) EXCEPT !.key = subdomain]
        doc == files[domain].doc
    IN  IF ~files[domain].exists THEN Rejects(call)
        ELSE Resolves(call, Queried(doc),
                Some(Includes(SubdomainsOf(doc, domain),
                              fullSubDomain(domain, subdomain))))

getSubdomains(domain) ==
    LET call == Call("getSubdomains", domain)
        doc == files[domain].doc
    IN  IF ~files[domain].exists THEN Rejects(call)
        ELSE Resolves(call, Queried(doc), Some(SubdomainsOf(doc, domain)))

----------------------------------------------------------------------------
(* Overlapping calls.  A call through processServerBlock is not one step:  *)
(* NginxConfFile.create reads the file and calls back later; the callback  *)
(* changes the tree; each change, and the closing conf.flush(), starts an  *)
(* fs.writeFile of the text serialised at that moment; the promise         *)
(* resolves when the first of these has been written.  addSubdomain and    *)
(* deleteSubdomain await three such rounds one after the other.            *)

\* The rounds of reading and flushing that a call goes through.
Rounds(call) ==
    IF call.op \in {"addSubdomain", "deleteSubdomain"} THEN 3 ELSE 1

\* The callback of the round the call is in; `seen` is the file as the round
\* before has read it.
RoundCallback(call, round, seen) ==
    LET full == fullSubDomain(call.domain, call.key)
        tokens == Split(KeyValueOfServers(Servers(Parse(seen)), "server_name", Null))
    IN  CASE call.op = "addKeyToServer" ->
                [type |-> "addKey", key |-> call.key, value |-> call.value]
          [] call.op = "addMultipleKeysToServer" ->
                [type |-> "addMultiple", pairs |-> call.pairs]
          [] call.op = "updateMultipleKeysInServer" ->
                [type |-> "updateMultiple", pairs |-> call.pairs]
          [] call.op = "deleteMultipleKeysFromServer" ->
                [type |-> "deleteMultiple", keys |-> call.keys]
          [] call.op = "addSubdomain" /\ round = 3 ->
                [type |-> "updateKey", key |-> "server_name",
                 value |-> <<call.domain>>
                           \o Append(SubdomainsOf(seen, call.domain), full)]
          [] call.op = "deleteSubdomain" /\ round = 3 ->
                [type |-> "updateKey", key |-> "server_name",
                 value |-> RemoveAt(tokens, IndexToSplice(tokens, full))]
          [] OTHER -> [type |-> "get"]

\* The single changes a callback makes, in the order of its loop.
Changes(cb) ==
    CASE cb.type = "addMultiple" ->
            [i \in 1..Len(cb.pairs) |->
                [type |-> "addKey", key |-> cb.pairs[i].key,
                 value |-> cb.pairs[i].value]]
      [] cb.type = "updateMultiple" ->
            [i \in 1..Len(cb.pairs) |->
                [type |-> "updateKey", key |-> cb.pairs[i].key,
                 value |-> cb.pairs[i].value]]
      [] cb.type = "deleteMultiple" ->
            [i \in 1..Len(cb.keys) |-> [type |-> "deleteKey", key |-> cb.keys[i]]]
      [] cb.type = "get" -> <<>>
      [] OTHER -> <<cb>>

RECURSIVE Flushes(_, _)
\* The texts whose writing the changes start: one after each change that
\* finds its key (or, for an add, does not find it).
Flushes(doc, changes) ==
    IF changes = <<>> THEN <<>>
    ELSE LET next == processServerBlock(doc, Head(changes)) IN
         (IF next = Queried(doc) THEN <<>> ELSE <<next>>)
         \o Flushes(next, Tail(changes))

\* All texts one round starts to write: those of the changes, then the one
\* of conf.flush().
Writes(doc, cb) == Flushes(doc, Changes(cb)) \o <<processServerBlock(doc, cb)>>

\* A write that is dropped when the file is no longer the one that was read.
WriteFileIfUnchanged(stored, read, text) ==
    IF stored = File(read) THEN File(text) ELSE stored

\* fs.writeFile(file, contents): the file holds the contents, whatever it
\* held and whatever the writer had read.
WriteFile(stored, read, text) == File(text)

\* What the caller does when the promise of its round resolves: it throws,
\* goes on to its next round, or is done.
AfterRound(slot) ==
    LET call == slot.call
        has == Includes(SubdomainsOf(slot.snapshot, call.domain),
                        fullSubDomain(call.domain, call.key))
    IN  IF \/ call.op = "addSubdomain" /\ slot.round = 1 /\ has
           \/ call.op = "deleteSubdomain" /\ slot.round = 1 /\ ~has
        THEN [slot EXCEPT !.phase = "done", !.call.outcome = "rejected"]
        ELSE IF slot.round < Rounds(call)
        THEN [slot EXCEPT !.phase = "read", !.round = @ + 1]
        ELSE [slot EXCEPT !.phase = "done", !.call.outcome = "resolved",
                 !.call.ret =
                    IF call.op = "getKeyValueFromServer"
                    THEN KeyValueOfServers(Servers(Parse(slot.snapshot)),
                                           call.key, Null)
                    ELSE Null]

\* A caller whose last call is over and written makes a call.
Begin(c, call) ==
    /\ calls[c].phase \in {"idle", "done"}
    /\ calls[c].flights = <<>>
    /\ calls' = [calls EXCEPT ![c] =
            IF call.op = "addKeyToServer" /\ call.key = ""
            THEN [Idle EXCEPT !.phase = "done",
                              !.call = [call EXCEPT !.outcome = "rejected"]]
            ELSE [Idle EXCEPT !.phase = "read", !.call = call, !.round = 1]]
    /\ UNCHANGED <<files, enabled, last, written>>

\* NginxConfFile.create has read the file and calls back: the callback runs
\* on what was read and the writes are started.
Created(c) ==
    LET slot == calls[c]
        d == slot.call.domain
        doc == files[d].doc
        texts == Writes(doc, RoundCallback(slot.call, slot.round, slot.snapshot))
    IN  /\ slot.phase = "read"
        /\ calls' = [calls EXCEPT ![c] =
                IF ~files[d].exists
                THEN [slot EXCEPT !.phase = "done", !.call.outcome = "rejected"]
                ELSE [slot EXCEPT !.phase = "write", !.snapshot = doc,
                        !.flights = @ \o [i \in 1..Len(texts) |->
                            [round |-> slot.round, read |-> doc,
                             text |-> texts[i]]]]]
        /\ UNCHANGED <<files, enabled, last, written>>

\* One of the caller's writes ends and its conf emits 'flushed'; the first
\* one of a round resolves the round's promise.
Flushed(c, i) ==
    LET slot == calls[c]
        w == slot.flights[i]
        rest == [slot EXCEPT !.flights = RemoveAt(@, i)]
    IN  /\ i \in 1..Len(slot.flights)
        /\ files' = [files EXCEPT ![slot.call.domain] = WriteFile(@, w.read, w.text)]
        /\ calls' = [calls EXCEPT ![c] =
                IF slot.phase = "write" /\ w.round = slot.round
                THEN AfterRound(rest) ELSE rest]
        /\ UNCHANGED <<enabled, last, written>>

----------------------------------------------------------------------------
(* createConfigFile in steps: the test of the name, the awaited            *)
(* fse.pathExists and the awaited fse.writeFile of the template.           *)

\* A caller whose last call is over and written calls createConfigFile: an
\* empty name throws, any other name has fse.pathExists under way.
BeginCreate(c, domain) ==
    LET call == Call("createConfigFile", domain) IN
    /\ calls[c].phase \in {"idle", "done"}
    /\ calls[c].flights = <<>>
    /\ calls' = [calls EXCEPT ![c] =
            [Idle EXCEPT
                !.phase = IF domain = "" THEN "done" ELSE "exists",
                !.round = IF domain = "" THEN 0 ELSE 1,
                !.call = [call EXCEPT
                            !.outcome = IF domain = "" THEN "rejected" ELSE "pending"]]]
    /\ UNCHANGED <<files, enabled, last, written>>

\* fse.pathExists answers: the call throws when the file is there, and
\* else starts fse.writeFile of the template.
PathExists(c) ==
    LET slot == calls[c]
        d == slot.call.domain
    IN  /\ slot.phase = "exists"
        /\ calls' = [calls EXCEPT ![c] =
                IF files[d].exists
                THEN [slot EXCEPT !.phase = "done", !.call.outcome = "rejected"]
                ELSE [slot EXCEPT !.phase = "write",
                        !.flights = <<[round |-> slot.round, read |-> files[d].doc,
                                       text |-> Template(d)]>>]]
        /\ UNCHANGED <<files, enabled, last, written>>

----------------------------------------------------------------------------
(* What a caller who only sees its own calls knows about the directives:   *)
(* per block and key, the value its calls have given the key.  A key gets  *)
(* a value by an add while it has none and by an update while it has one,  *)
(* and loses it by a delete; a location has keys from its addLocation to   *)
(* its deleteLocation.                                                     *)

NoKeys == [k \in ServerKeys \cup LocationKeys |-> Null]

WrittenTemplate == [server |-> NoKeys, locations |-> [l \in Selectors |-> Null]]

WrittenKey(keys, call) ==
    CASE call.op \in {"addKeyToServer", "addKeyToLocation"} ->
            IF keys[call.key] = Null
            THEN [keys EXCEPT ![call.key] = Some(call.value)] ELSE keys
      [] call.op \in {"updateKeyInServer", "updateKeyInLocation"} ->
            IF keys[call.key] # Null
            THEN [keys EXCEPT ![call.key] = Some(call.value)] ELSE keys
      [] call.op \in {"deleteKeyFromServer", "deleteKeyFromLocation"} ->
            [keys EXCEPT ![call.key] = Null]
      [] OTHER -> keys

Written(w, call) ==
    IF call.outcome # "resolved" THEN w
    ELSE CASE call.op \in {"addKeyToServer", "updateKeyInServer",
                           "deleteKeyFromServer"} ->
                [w EXCEPT !.server = WrittenKey(@, call)]
           [] call.op \in {"addKeyToLocation", "updateKeyInLocation",
                           "deleteKeyFromLocation"} ->
                IF w.locations[call.location] = Null THEN w
                ELSE [w EXCEPT !.locations[call.location] =
                                    Some(WrittenKey(@[1], call))]
           [] call.op = "addLocation" ->
                [w EXCEPT !.locations[call.location] = Some(NoKeys)]
           [] call.op = "deleteLocation" ->
                [w EXCEPT !.locations[call.location] = Null]
           [] OTHER -> w

----------------------------------------------------------------------------
(* Sequential runs on the file createConfigFile wrote.                     *)

NumLocations(domain) == Len(FirstServerLocations(Parse(files[domain].doc)))

\* The objects a batch call can be given: their keys, in insertion order.
PairLists(keys, values) ==
    {<<>>}
    \cup {<<[key |-> k, value |-> v]>> : k \in keys, v \in values}
    \cup {<<[key |-> t[1], value |-> t[3]], [key |-> t[2], value |-> t[3]]>> :
            t \in {u \in keys \X keys \X values : u[1] # u[2]}}

Init ==
    /\ files = [d \in Domains |-> File(Template(d))]
    /\ enabled = {}
    /\ last = [Call("createConfigFile", Domain) EXCEPT !.outcome = "resolved"]
    /\ written = WrittenTemplate
    /\ calls = NoCalls

\* The step also notes what the caller has now written / leaves the notes alone.
Track == written' = Written(written, last') /\ UNCHANGED calls
Keep == UNCHANGED <<written, calls>>

\* Directive editing: the keys of the server block and of its locations.
Next ==
    \E d \in Domains :
        \/ \E k \in ServerKeys \cup {""}, v \in Values : addKeyToServer(d, k, v) /\ Track
        \/ \E k \in ServerKeys, v \in Values : updateKeyInServer(d, k, v) /\ Track
        \/ \E k \in ServerKeys : deleteKeyFromServer(d, k) /\ Track
        \/ \E k \in ServerKeys : getKeyValueFromServer(d, k) /\ Track
        \/ \E l \in Selectors \cup {""} : addLocation(d, l) /\ Track
        \/ \E l \in Selectors : deleteLocation(d, l) /\ Track
        \/ \E l \in Selectors, k \in LocationKeys, v \in Values :
                addKeyToLocation(d, l, k, v) /\ Track
        \/ \E l \in Selectors, k \in LocationKeys, v \in Values :
                updateKeyInLocation(d, l, k, v) /\ Track
        \/ \E l \in Selectors, k \in LocationKeys : deleteKeyFromLocation(d, l, k) /\ Track
        \/ \E l \in Selectors, k \in LocationKeys : getKeyValueFromLocation(d, l, k) /\ Track

Spec == Init /\ [][Next]_vars

\* Every editor operation, mixed, on few values.
MixedNext ==
    \E d \in Domains :
        \/ \E k \in ServerKeys, v \in MixedValues : addKeyToServer(d, k, v) /\ Keep
        \/ \E ps \in PairLists(MixedKeys, MixedValues) : addMultipleKeysToServer(d, ps) /\ Keep
        \/ \E k \in ServerKeys, v \in MixedValues : updateKeyInServer(d, k, v) /\ Keep
        \/ \E k \in ServerKeys : deleteKeyFromServer(d, k) /\ Keep
        \/ \E l \in Selectors :
                NumLocations(d) < MaxLocations /\ addLocation(d, l) /\ Keep
        \/ \E l \in Selectors : deleteLocation(d, l) /\ Keep
        \/ \E l1 \in Selectors, l2 \in Selectors : updateLocation(d, l1, l2) /\ Keep
        \/ \E l \in Selectors, k \in LocationKeys, v \in MixedValues :
                addKeyToLocation(d, l, k, v) /\ Keep
        \/ \E l \in Selectors, ps \in PairLists(LocationKeys, MixedValues) :
                addMultipleKeysToLocation(d, l, ps) /\ Keep
        \/ \E s \in Subdomains : addSubdomain(d, s) /\ Keep
        \/ \E s \in Subdomains : deleteSubdomain(d, s) /\ Keep

SpecMixed == Init /\ [][MixedNext]_vars

\* Location blocks: added, renamed and removed, with or without a directive.
RenameNext ==
    \E d \in Domains :
        \/ \E l \in RenameSelectors \cup {""} :
                NumLocations(d) < MaxRenameLocations /\ addLocation(d, l) /\ Keep
        \/ \E l \in RenameSelectors : deleteLocation(d, l) /\ Keep
        \/ \E l1 \in RenameSelectors, l2 \in RenameSelectors :
                updateLocation(d, l1, l2) /\ Keep
        \/ \E l \in RenameSelectors, k \in LocationKeys, v \in MixedValues :
                addKeyToLocation(d, l, k, v) /\ Keep
        \/ getAllLocations(d) /\ Keep

SpecRename == Init /\ [][RenameNext]_vars

----------------------------------------------------------------------------
(* Runs on files that were written by hand: the manager opens whatever is  *)
(* in sites-available, and such a file may hold several server blocks.     *)

ServerNode(children) == [name |-> "server", value |-> <<>>, children |-> children]

HandBlocks ==
    { <<Directive("listen", <<"80">>)>>,
      <<Directive("listen", <<"80">>), Directive("root", <<"/srv/a">>)>>,
      <<Directive("root", <<"/srv/b">>), Directive("listen", <<"443">>)>> }

HandDocs == { <<ServerNode(a), ServerNode(b)>> : a \in HandBlocks, b \in HandBlocks }

KeyLists(keys) ==
    {<<>>} \cup {<<k>> : k \in keys} \cup {<<k1, k2>> : k1 \in keys, k2 \in keys}

DocsInit ==
    /\ files \in [Domains -> {File(doc) : doc \in HandDocs}]
    /\ enabled = {}
    /\ last = [Call("constructor", Domain) EXCEPT !.outcome = "resolved"]
    /\ written = WrittenTemplate
    /\ calls = NoCalls

DocsNext ==
    \E d \in Domains :
        \/ \E k \in ServerKeys, v \in Values : addKeyToServer(d, k, v) /\ Keep
        \/ \E k \in ServerKeys, v \in Values : updateKeyInServer(d, k, v) /\ Keep
        \/ \E k \in ServerKeys : deleteKeyFromServer(d, k) /\ Keep
        \/ \E ps \in PairLists(ServerKeys, Values) : addMultipleKeysToServer(d, ps) /\ Keep
        \/ \E ps \in PairLists(ServerKeys, Values) : updateMultipleKeysInServer(d, ps) /\ Keep
        \/ \E ks \in KeyLists(ServerKeys) : deleteMultipleKeysFromServer(d, ks) /\ Keep

SpecDocs == DocsInit /\ [][DocsNext]_vars

\* Directives and locations added and removed, and the blocks read back whole.
ReadBackNext ==
    \E d \in Domains :
        \/ \E k \in MixedKeys, v \in MixedValues : addKeyToServer(d, k, v) /\ Keep
        \/ \E k \in MixedKeys : deleteKeyFromServer(d, k) /\ Keep
        \/ \E l \in Selectors :
                NumLocations(d) < MaxLocations /\ addLocation(d, l) /\ Keep
        \/ \E l \in Selectors : deleteLocation(d, l) /\ Keep
        \/ \E l \in Selectors, k \in MixedKeys, v \in MixedValues :
                addKeyToLocation(d, l, k, v) /\ Keep
        \/ getAllKeyValuesFromServer(d) /\ Keep
        \/ \E l \in Selectors : getAllKeyValuesFromLocation(d, l) /\ Keep

SpecReadBack == Init /\ [][ReadBackNext]_vars

\* Two domains, each with or without its file.
TwoInit ==
    /\ files = [d \in TwoDomains |-> IF d = Domain THEN File(Template(d)) ELSE NoFile]
    /\ enabled = {}
    /\ last = [Call("createConfigFile", Domain) EXCEPT !.outcome = "resolved"]
    /\ written = WrittenTemplate
    /\ calls = NoCalls

TwoNext ==
    \/ \E d \in TwoDomains \cup {""} : createConfigFile(d) /\ Keep
    \/ \E d \in TwoDomains :
        \/ deleteConfigFile(d) /\ Keep
        \/ \E k \in ServerKeys, v \in MixedValues : addKeyToServer(d, k, v) /\ Keep
        \/ \E k \in ServerKeys, v \in MixedValues : updateKeyInServer(d, k, v) /\ Keep
        \/ \E k \in ServerKeys : deleteKeyFromServer(d, k) /\ Keep
        \/ addLocation(d, "/") /\ Keep
        \/ deleteLocation(d, "/") /\ Keep
        \/ \E k \in LocationKeys, v \in MixedValues :
                addKeyToLocation(d, "/", k, v) /\ Keep
        \/ \E k \in LocationKeys, v \in MixedValues :
                updateKeyInLocation(d, "/", k, v) /\ Keep
        \/ \E k \in LocationKeys : deleteKeyFromLocation(d, "/", k) /\ Keep
        \/ getSubdomains(d) /\ Keep
        \/ \E s \in Subdomains : addSubdomain(d, s) /\ Keep
        \/ \E s \in Subdomains : deleteSubdomain(d, s) /\ Keep

SpecTwo == TwoInit /\ [][TwoNext]_vars

\* Two domains: their files made, renamed, enabled, disabled and deleted,
\* and edited by calls that may reject.
LifeNext ==
    \/ \E d \in TwoDomains \cup {""} : createConfigFile(d) /\ Keep
    \/ \E d \in TwoDomains \cup {""}, n \in TwoDomains \cup {""} :
            updateConfigFile(d, n) /\ Keep
    \/ \E d \in TwoDomains :
        \/ deleteConfigFile(d) /\ Keep
        \/ enableConfigFile(d) /\ Keep
        \/ disableConfigFile(d) /\ Keep
        \/ checkConfigFileExists(d) /\ Keep
        \/ checkConfigFileEnabled(d) /\ Keep
        \/ \E v \in MixedValues : addKeyToServer(d, "", v) /\ Keep
        \/ \E l \in {"", "/"} : addLocation(d, l) /\ Keep
        \/ \E s \in Subdomains : addSubdomain(d, s) /\ Keep
        \/ \E s \in Subdomains : deleteSubdomain(d, s) /\ Keep

SpecLife == TwoInit /\ [][LifeNext]_vars

\* Three domains, the first with its file: files made, renamed, enabled,
\* disabled, deleted and given a location.
ThreeInit ==
    /\ files = [d \in ThreeDomains |-> IF d = Domain THEN File(Template(d)) ELSE NoFile]
    /\ enabled = {}
    /\ last = [Call("createConfigFile", Domain) EXCEPT !.outcome = "resolved"]
    /\ written = WrittenTemplate
    /\ calls = NoCalls

MoveNext ==
    \/ \E d \in ThreeDomains \cup {""}, n \in ThreeDomains \cup {""} :
            updateConfigFile(d, n) /\ Keep
    \/ \E d \in ThreeDomains :
        \/ createConfigFile(d) /\ Keep
        \/ deleteConfigFile(d) /\ Keep
        \/ enableConfigFile(d) /\ Keep
        \/ disableConfigFile(d) /\ Keep
        \/ addLocation(d, "/") /\ Keep

SpecMove == ThreeInit /\ [][MoveNext]_vars

\* Two domains, each with its file, its link and its edits.
ApartNext ==
    \E d \in TwoDomains :
        \/ createConfigFile(d) /\ Keep
        \/ deleteConfigFile(d) /\ Keep
        \/ enableConfigFile(d) /\ Keep
        \/ disableConfigFile(d) /\ Keep
        \/ \E k \in ServerKeys, v \in MixedValues : addKeyToServer(d, k, v) /\ Keep
        \/ \E k \in ServerKeys : deleteKeyFromServer(d, k) /\ Keep
        \/ \E l \in {"/"} : addLocation(d, l) /\ Keep
        \/ \E l \in {"/"} : deleteLocation(d, l) /\ Keep
        \/ \E s \in Subdomains : addSubdomain(d, s) /\ Keep
        \/ \E s \in Subdomains : deleteSubdomain(d, s) /\ Keep

SpecApart == TwoInit /\ [][ApartNext]_vars

\* Hand-written files that are read: a server block may repeat a key.
ReadBlocks ==
    { <<Directive("listen", <<"80">>)>>,
      <<Directive("listen", <<"80">>), Directive("root", <<"/srv/a">>)>>,
      <<Directive("root", <<"/srv/b">>), Directive("root", <<"/srv/c">>)>> }

ReadDocs == { <<ServerNode(a), ServerNode(b)>> : a \in ReadBlocks, b \in ReadBlocks }

ReadInit ==
    /\ files \in [Domains -> {File(doc) : doc \in ReadDocs}]
    /\ enabled = {}
    /\ last = [Call("constructor", Domain) EXCEPT !.outcome = "resolved"]
    /\ written = WrittenTemplate
    /\ calls = NoCalls

ReadNext ==
    \E d \in Domains :
        \/ \E k \in ServerKeys : getKeyValueFromServer(d, k) /\ Keep
        \/ \E k \in ServerKeys, v \in Values : addKeyToServer(d, k, v) /\ Keep
        \/ \E k \in ServerKeys, v \in Values : updateKeyInServer(d, k, v) /\ Keep
        \/ \E k \in ServerKeys : deleteKeyFromServer(d, k) /\ Keep

SpecRead == ReadInit /\ [][ReadNext]_vars

\* Hand-written files whose server blocks hold location blocks.
LocationNode(location, children) ==
    [name |-> "location", value |-> <<location>>, children |-> children]

NestedBlocks ==
    { <<Directive("listen", <<"80">>)>>,
      <<Directive("listen", <<"80">>), LocationNode("/", <<>>)>>,
      <<Directive("listen", <<"80">>),
        LocationNode("/", <<Directive("alias", <<"/srv/a">>)>>)>> }

NestedDocs == { <<ServerNode(a), ServerNode(b)>> : a \in NestedBlocks, b \in NestedBlocks }

NestedInit ==
    /\ files \in [Domains -> {File(doc) : doc \in NestedDocs}]
    /\ enabled = {}
    /\ last = [Call("constructor", Domain) EXCEPT !.outcome = "resolved"]
    /\ written = WrittenTemplate
    /\ calls = NoCalls

NestedNext ==
    \E d \in Domains :
        \/ \E l \in Selectors :
                NumLocations(d) < MaxLocations /\ addLocation(d, l) /\ Keep
        \/ \E l \in Selectors : deleteLocation(d, l) /\ Keep
        \/ \E l1 \in Selectors, l2 \in Selectors : updateLocation(d, l1, l2) /\ Keep
        \/ \E l \in Selectors, k \in LocationKeys, v \in MixedValues :
                addKeyToLocation(d, l, k, v) /\ Keep
        \/ \E l \in Selectors, k \in LocationKeys, v \in MixedValues :
                updateKeyInLocation(d, l, k, v) /\ Keep
        \/ \E l \in Selectors, k \in LocationKeys : deleteKeyFromLocation(d, l, k) /\ Keep
        \/ \E l \in Selectors, k \in LocationKeys : getKeyValueFromLocation(d, l, k) /\ Keep
        \/ getAllLocations(d) /\ Keep

SpecNested == NestedInit /\ [][NestedNext]_vars

\* Hand-written files whose server block has other directives between two
\* of one name.
SplitBlocks ==
    { <<Directive("root", <<"/srv/a">>),
        Directive("server_name", <<Domain, "api.a.com">>),
        Directive("root", <<"/srv/b">>)>>,
      <<LocationNode("/", <<>>),
        Directive("server_name", <<Domain>>),
        LocationNode("/api", <<>>)>>,
      <<Directive("listen", <<"80">>),
        Directive("server_name", <<Domain, "www.a.com">>)>> }

SplitDocs == { <<ServerNode(b)>> : b \in SplitBlocks }

SplitInit ==
    /\ files \in [Domains -> {File(doc) : doc \in SplitDocs}]
    /\ enabled = {}
    /\ last = [Call("constructor", Domain) EXCEPT !.outcome = "resolved"]
    /\ written = WrittenTemplate
    /\ calls = NoCalls

SplitNext ==
    \E d \in Domains :
        \/ createConfigFile(d) /\ Keep
        \/ \E k \in ServerKeys \cup {""}, v \in MixedValues :
                addKeyToServer(d, k, v) /\ Keep
        \/ \E l \in Selectors \cup {""} : addLocation(d, l) /\ Keep
        \/ \E s \in NameSubdomains : addSubdomain(d, s) /\ Keep
        \/ \E s \in NameSubdomains : deleteSubdomain(d, s) /\ Keep

SpecSplit == SplitInit /\ [][SplitNext]_vars

\* Two callers add keys to the server block of one domain.
RaceNext ==
    \E c \in Callers :
        \/ \E k \in MixedKeys, v \in MixedValues :
                Begin(c, [Call("addKeyToServer", Domain) EXCEPT !.key = k, !.value = v])
        \/ Created(c)
        \/ \E i \in 1..Len(calls[c].flights) : Flushed(c, i)

SpecRace == Init /\ [][RaceNext]_vars

----------------------------------------------------------------------------
(* Views of a stored document, for the properties below.                   *)

NodesNamed(nodes, name) == SelectSeq(nodes, LAMBDA n : n.name = name)

\* The children of the first server block of the domain's stored document.
ServerChildren(fs, domain) ==
    LET servers == NodesNamed(fs[domain].doc, "server") IN
    IF servers = <<>> THEN <<>> ELSE servers[1].children

\* The location blocks of the first server block with the given selector.
LocationNodes(fs, domain, location) ==
    SelectSeq(ServerChildren(fs, domain),
              LAMBDA n : n.name = "location" /\ n.value = <<location>>)

LocationsHaving(fs, domain, location, key) ==
    SelectSeq(LocationNodes(fs, domain, location),
              LAMBDA n : NodesNamed(n.children, key) # <<>>)

Resolved(call, ops) == call.op \in ops /\ call.outcome = "resolved"

\* The value of the server_name directive of the first server block, if any.
ServerName(fs, domain) ==
    LET names == NodesNamed(ServerChildren(fs, domain), "server_name") IN
    IF names = <<>> THEN Null ELSE Some(names[1].value)

\* The tokens of that value: none when there is no directive.
NameTokens(fs, domain) ==
    IF ServerName(fs, domain) = Null THEN <<>> ELSE ServerName(fs, domain)[1]

\* The tokens without the first one that equals x.
RECURSIVE WithoutFirstToken(_, _)
WithoutFirstToken(tokens, x) ==
    IF tokens = <<>> THEN <<>>
    ELSE IF Head(tokens) = x THEN Tail(tokens)
         ELSE <<Head(tokens)>> \o WithoutFirstToken(Tail(tokens), x)

----------------------------------------------------------------------------
(* Overlapping runs of the subdomain operations.                           *)

\* The texts of the domain: the stored one, those being written and those
\* that a call still under way has read.
Texts(domain) ==
    {files[domain].doc}
    \cup UNION {{calls[c].flights[i].text : i \in 1..Len(calls[c].flights)} :
                c \in Callers}
    \cup {calls[c].snapshot : c \in {o \in Callers : calls[o].phase # "done"}}

\* Two callers add and delete a subdomain and add a key on one domain; a
\* subdomain is added while server_name has fewer than MaxNames names in
\* every text.
RoundsNext ==
    \E c \in Callers :
        \/ \E s \in Subdomains :
                /\ \A text \in Texts(Domain) :
                        Len(Split(KeyValueOfServers(Servers(Parse(text)),
                                    "server_name", Null))) < MaxNames
                /\ Begin(c, [Call("addSubdomain", Domain) EXCEPT !.key = s])
        \/ \E s \in Subdomains :
                Begin(c, [Call("deleteSubdomain", Domain) EXCEPT !.key = s])
        \/ \E k \in ServerKeys, v \in MixedValues :
                Begin(c, [Call("addKeyToServer", Domain) EXCEPT !.key = k, !.value = v])
        \/ Created(c)
        \/ \E i \in 1..Len(calls[c].flights) : Flushed(c, i)

SpecRounds == Init /\ [][RoundsNext]_vars

\* The pairs and the keys of a batch over both keys.
BatchPairs == <<[key |-> "root", value |-> <<"v1">>],
                [key |-> "index", value |-> <<"v1">>]>>
BatchKeys == <<"root", "index">>

\* Two callers add both keys in one batch, delete both in one batch, and read.
BatchNext ==
    \E c \in Callers :
        \/ Begin(c, [Call("addMultipleKeysToServer", Domain) EXCEPT !.pairs = BatchPairs])
        \/ Begin(c, [Call("deleteMultipleKeysFromServer", Domain) EXCEPT !.keys = BatchKeys])
        \/ \E k \in MixedKeys :
                Begin(c, [Call("getKeyValueFromServer", Domain) EXCEPT !.key = k])
        \/ Created(c)
        \/ \E i \in 1..Len(calls[c].flights) : Flushed(c, i)

SpecBatch == Init /\ [][BatchNext]_vars

\* One caller reads a key while the other adds it.
QueryNext ==
    \E c \in Callers :
        \/ \E k \in ServerKeys, v \in MixedValues :
                Begin(c, [Call("addKeyToServer", Domain) EXCEPT !.key = k, !.value = v])
        \/ \E k \in ServerKeys :
                Begin(c, [Call("getKeyValueFromServer", Domain) EXCEPT !.key = k])
        \/ Created(c)
        \/ \E i \in 1..Len(calls[c].flights) : Flushed(c, i)

SpecQuery == Init /\ [][QueryNext]_vars

----------------------------------------------------------------------------
(* Overlapping runs of createConfigFile and an edit.                       *)

\* The domain has no file yet: the one call so far, createConfigFile(''),
\* has thrown.
NoFileInit ==
    /\ files = [d \in Domains |-> NoFile]
    /\ enabled = {}
    /\ last = [Call("createConfigFile", "") EXCEPT !.outcome = "rejected"]
    /\ written = WrittenTemplate
    /\ calls = NoCalls

\* Two callers create the file of one domain and add a key to it.
CreateNext ==
    \E c \in Callers :
        \/ \E d \in Domains \cup {""} : BeginCreate(c, d)
        \/ PathExists(c)
        \/ \E k \in ServerKeys, v \in Values :
                Begin(c, [Call("addKeyToServer", Domain) EXCEPT !.key = k, !.value = v])
        \/ Created(c)
        \/ \E i \in 1..Len(calls[c].flights) : Flushed(c, i)

SpecCreate == NoFileInit /\ [][CreateNext]_vars

----------------------------------------------------------------------------
(* Adds whose key or selector may be the empty string.                     *)

BlankKeys == {"", "root"}
BlankLocationKeys == {"", "alias"}

RECURSIVE NodeCount(_)
NodeCount(nodes) ==
    IF nodes = <<>> THEN 0
    ELSE 1 + NodeCount(Head(nodes).children) + NodeCount(Tail(nodes))

BlankNext ==
    \E d \in Domains :
        \/ \E k \in BlankKeys, v \in MixedValues :
                NodeCount(files[d].doc) < MaxNodes /\ addKeyToServer(d, k, v) /\ Keep
        \/ \E ps \in PairLists(BlankKeys, MixedValues) :
                NodeCount(files[d].doc) < MaxNodes
                /\ addMultipleKeysToServer(d, ps) /\ Keep
        \/ \E l \in {"", "/"} :
                NodeCount(files[d].doc) < MaxNodes /\ addLocation(d, l) /\ Keep
        \/ \E k \in BlankLocationKeys, v \in MixedValues :
                NodeCount(files[d].doc) < MaxNodes
                /\ addKeyToLocation(d, "/", k, v) /\ Keep
        \/ \E ps \in PairLists(BlankLocationKeys, MixedValues) :
                NodeCount(files[d].doc) < MaxNodes
                /\ addMultipleKeysToLocation(d, "/", ps) /\ Keep
        \/ \E k \in BlankKeys : deleteKeyFromServer(d, k) /\ Keep
        \/ deleteLocation(d, "/") /\ Keep

SpecBlank == Init /\ [][BlankNext]_vars

----------------------------------------------------------------------------
(* Batches next to the single-key operations.                              *)

\* The six batch operations, the single-key operations and the location
\* they work on, with keys that may be the empty string.
SameNext ==
    \E d \in Domains :
        \/ \E ps \in PairLists(BlankKeys, Values) :
                NodeCount(files[d].doc) < MaxNodes
                /\ addMultipleKeysToServer(d, ps) /\ Keep
        \/ \E ps \in PairLists(BlankKeys, Values) :
                updateMultipleKeysInServer(d, ps) /\ Keep
        \/ \E ks \in KeyLists(BlankKeys) : deleteMultipleKeysFromServer(d, ks) /\ Keep
        \/ \E ps \in PairLists(BlankLocationKeys, Values) :
                NodeCount(files[d].doc) < MaxNodes
                /\ addMultipleKeysToLocation(d, "/", ps) /\ Keep
        \/ \E ps \in PairLists(BlankLocationKeys, Values) :
                updateMultipleKeysInLocation(d, "/", ps) /\ Keep
        \/ \E ks \in KeyLists(BlankLocationKeys) :
                deleteMultipleKeysFromLocation(d, "/", ks) /\ Keep
        \/ NodeCount(files[d].doc) < MaxNodes /\ addLocation(d, "/") /\ Keep
        \/ deleteLocation(d, "/") /\ Keep

SpecSame == Init /\ [][SameNext]_vars

----------------------------------------------------------------------------
(* Edits inside location blocks.                                           *)

\* Two selectors, a server directive next to the locations, the six key
\* operations on a location, and locations added, renamed and removed.
PlacesNext ==
    \E d \in Domains :
        \/ \E k \in ServerKeys, v \in MixedValues : addKeyToServer(d, k, v) /\ Keep
        \/ \E l \in Selectors :
                NumLocations(d) < MaxLocations /\ addLocation(d, l) /\ Keep
        \/ \E l \in Selectors : deleteLocation(d, l) /\ Keep
        \/ \E l1 \in Selectors, l2 \in Selectors : updateLocation(d, l1, l2) /\ Keep
        \/ \E l \in Selectors, k \in LocationKeys, v \in Values :
                addKeyToLocation(d, l, k, v) /\ Keep
        \/ \E l \in Selectors, k \in LocationKeys, v \in Values :
                updateKeyInLocation(d, l, k, v) /\ Keep
        \/ \E l \in Selectors, k \in LocationKeys : deleteKeyFromLocation(d, l, k) /\ Keep
        \/ \E l \in Selectors, ps \in PairLists(LocationKeys, Values) :
                addMultipleKeysToLocation(d, l, ps) /\ Keep
        \/ \E l \in Selectors, ps \in PairLists(LocationKeys, Values) :
                updateMultipleKeysInLocation(d, l, ps) /\ Keep
        \/ \E l \in Selectors, ks \in KeyLists(LocationKeys) :
                deleteMultipleKeysFromLocation(d, l, ks) /\ Keep

SpecPlaces == Init /\ [][PlacesNext]_vars

----------------------------------------------------------------------------
(* Readable files with no, one or two server blocks.                       *)

BareDocs ==
    { <<>>,
      <<ServerNode(<<Directive("listen", <<"80">>)>>)>>,
      <<ServerNode(<<Directive("listen", <<"80">>)>>),
        ServerNode(<<Directive("listen", <<"443">>), LocationNode("/", <<>>)>>)>> }

BareInit ==
    /\ files \in [Domains -> {File(doc) : doc \in BareDocs}]
    /\ enabled = {}
    /\ last = [Call("constructor", Domain) EXCEPT !.outcome = "resolved"]
    /\ written = WrittenTemplate
    /\ calls = NoCalls

BareNext ==
    \E d \in Domains :
        \/ \E l \in Selectors \cup {""} :
                NumLocations(d) < MaxLocations /\ addLocation(d, l) /\ Keep
        \/ \E l \in Selectors : deleteLocation(d, l) /\ Keep
        \/ \E l \in Selectors, k \in LocationKeys, v \in MixedValues :
                addKeyToLocation(d, l, k, v) /\ Keep
        \/ \E k \in ServerKeys, v \in MixedValues : addKeyToServer(d, k, v) /\ Keep
        \/ \E k \in ServerKeys : deleteKeyFromServer(d, k) /\ Keep
        \/ \E k \in ServerKeys : getKeyValueFromServer(d, k) /\ Keep
        \/ getAllLocations(d) /\ Keep
        \/ \E s \in Subdomains : addSubdomain(d, s) /\ Keep

SpecBare == BareInit /\ [][BareNext]_vars

----------------------------------------------------------------------------
(* Texts that are read, written back and read again.                       *)

TextDocs == HandDocs \cup SplitDocs \cup NestedDocs \cup BareDocs

TextInit ==
    /\ files \in [Domains -> {File(doc) : doc \in TextDocs}]
    /\ enabled = {}
    /\ last = [Call("constructor", Domain) EXCEPT !.outcome = "resolved"]
    /\ written = WrittenTemplate
    /\ calls = NoCalls

\* Reads, which write back what they have parsed, and adds, also of blank
\* keys, which bring new texts.
TextNext ==
    \E d \in Domains :
        \/ \E k \in ServerKeys : getKeyValueFromServer(d, k) /\ Keep
        \/ getAllLocations(d) /\ Keep
        \/ \E k \in ServerKeys, v \in MixedValues :
                NodeCount(files[d].doc) < MaxNodes /\ addKeyToServer(d, k, v) /\ Keep
        \/ \E ps \in PairLists(BlankKeys, MixedValues) :
                NodeCount(files[d].doc) < MaxNodes
                /\ addMultipleKeysToServer(d, ps) /\ Keep
        \/ \E k \in BlankLocationKeys, v \in MixedValues :
                NodeCount(files[d].doc) < MaxNodes
                /\ addKeyToLocation(d, "/", k, v) /\ Keep

SpecText == TextInit /\ [][TextNext]_vars

----------------------------------------------------------------------------
(* Reads of locations that are there or not, with the key or without.      *)

AbsentNext ==
    \E d \in Domains :
        \/ \E l \in Selectors :
                NumLocations(d) < MaxLocations /\ addLocation(d, l) /\ Keep
        \/ \E l \in Selectors : deleteLocation(d, l) /\ Keep
        \/ \E l1 \in Selectors, l2 \in Selectors : updateLocation(d, l1, l2) /\ Keep
        \/ \E l \in Selectors, k \in LocationKeys, v \in Values :
                addKeyToLocation(d, l, k, v) /\ Keep
        \/ \E l \in Selectors, k \in LocationKeys : deleteKeyFromLocation(d, l, k) /\ Keep
        \/ \E l \in Selectors, k \in LocationKeys : getKeyValueFromLocation(d, l, k) /\ Keep
        \/ \E l \in Selectors : getAllKeyValuesFromLocation(d, l) /\ Keep

SpecAbsent == Init /\ [][AbsentNext]_vars

----------------------------------------------------------------------------
(* Runs of the subdomain operations.                                       *)

\* Subdomains only, from the created template.
SubNext ==
    \E d \in Domains :
        \/ \E s \in SubNames : addSubdomain(d, s) /\ Keep
        \/ \E s \in SubNames : deleteSubdomain(d, s) /\ Keep
        \/ getSubdomains(d) /\ Keep
        \/ \E s \in SubNames : checkSubdomainExists(d, s) /\ Keep

SpecSub == Init /\ [][SubNext]_vars

\* Subdomains while server_name is also edited as a plain directive.  The
\* caller's note is the server_name it had before its last call.
NamesInit ==
    /\ files = [d \in Domains |-> File(Template(d))]
    /\ enabled = {}
    /\ last = [Call("createConfigFile", Domain) EXCEPT !.outcome = "resolved"]
    /\ written = Null
    /\ calls = NoCalls

TrackName == written' = ServerName(files, Domain) /\ UNCHANGED calls

NamesNext ==
    \E d \in Domains :
        \/ \E s \in NameSubdomains : addSubdomain(d, s) /\ TrackName
        \/ \E s \in NameSubdomains : deleteSubdomain(d, s) /\ TrackName
        \/ getSubdomains(d) /\ TrackName
        \/ \E v \in NameValues : addKeyToServer(d, "server_name", v) /\ TrackName
        \/ \E v \in NameValues : updateKeyInServer(d, "server_name", v) /\ TrackName
        \/ deleteKeyFromServer(d, "server_name") /\ TrackName

SpecNames == NamesInit /\ [][NamesNext]_vars

----------------------------------------------------------------------------
(* C1.  Idempotent add.  In runs that start from the created template, an  *)
(* addKeyToServer or addKeyToLocation with a non-blank key k that the      *)
(* block lacks leaves exactly one directive k in the block, with the value *)
(* given, and one with a key the block has leaves the document as it was:  *)
(* so add(k, v1) followed by add(k, v2) leaves exactly one k, with v1.     *)
C1_IdempotentAdd ==
    [][ /\ Resolved(last', {"addKeyToServer"}) =>
            LET k == last'.key
                was == NodesNamed(ServerChildren(files, Domain), k)
                now == NodesNamed(ServerChildren(files', Domain), k)
            IN  IF was = <<>>
                THEN now = <<Directive(k, last'.value)>>
                ELSE files' = files
        /\ Resolved(last', {"addKeyToLocation"}) =>
            LET k == last'.key
                was == LocationNodes(files, Domain, last'.location)
                now == LocationNodes(files', Domain, last'.location)
            IN  /\ Len(now) = Len(was)
                /\ \A i \in 1..Len(was) :
                     IF NodesNamed(was[i].children, k) = <<>>
                     THEN NodesNamed(now[i].children, k) = <<Directive(k, last'.value)>>
                     ELSE now[i] = was[i]
                /\ LocationsHaving(files, Domain, last'.location, k) = was
                        => files' = files
      ]_vars

\* An add of a key that is there with another value has been ignored, in the
\* server block or in a location block.
C1_Witness ==
    \/ /\ Resolved(last, {"addKeyToServer"})
       /\ \E n \in {ServerChildren(files, Domain)[i] :
                        i \in 1..Len(ServerChildren(files, Domain))} :
                n.name = last.key /\ n.value # last.value
    \/ /\ Resolved(last, {"addKeyToLocation"})
       /\ LocationNodes(files, Domain, last.location) # <<>>
       /\ LocationNodes(files, Domain, last.location)[1].children
                = <<Directive(last.key, <<"v1">>)>>
       /\ last.value = <<"v2">>

----------------------------------------------------------------------------
(* C2.  At most one directive per key.  From the created template, after   *)
(* any sequence of the editor operations (directive adds, single and       *)
(* batch, updates and deletes, location adds, renames and deletes,         *)
(* subdomain adds and deletes), no block of the stored document, server    *)
(* or location, holds two directives with the same key.  A directive is a  *)
(* child that is not a location block.                                     *)
RECURSIVE OneDirectivePerKey(_)
OneDirectivePerKey(nodes) ==
    /\ \A i \in 1..Len(nodes), j \in 1..Len(nodes) :
            (i < j /\ nodes[i].name = nodes[j].name) => nodes[i].name = "location"
    /\ \A i \in 1..Len(nodes) : OneDirectivePerKey(nodes[i].children)

----------------------------------------------------------------------------
(* C3.  Read your writes.  In a sequential run on the created file, a      *)
(* getKeyValueFromServer returns what the caller's own calls have given    *)
(* the key: the value of the last add made while the key had none or of    *)
(* the last update made while it had one, and null after a delete that no  *)
(* add has followed.  The same holds for getKeyValueFromLocation on a      *)
(* location the caller has added and not deleted.                          *)
C3_ReadYourWrites ==
    /\ Resolved(last, {"getKeyValueFromServer"}) =>
            last.ret = written.server[last.key]
    /\ (Resolved(last, {"getKeyValueFromLocation"})
            /\ written.locations[last.location] # Null) =>
            last.ret = written.locations[last.location][1][last.key]

\* A location's key is read back with the second value: it was added and
\* updated, or deleted and added again.
C3_Witness ==
    /\ Resolved(last, {"getKeyValueFromLocation"})
    /\ last.ret = Some(<<"v2">>)
    /\ written.server["root"] = Some(<<"v2">>)

----------------------------------------------------------------------------
(* C4.  Silent miss.  An update or a delete of a key that the target block *)
(* does not hold resolves and leaves the stored document as it was: in the *)
(* server block for updateKeyInServer and deleteKeyFromServer, in the      *)
(* location for updateKeyInLocation and deleteKeyFromLocation, also when   *)
(* there is no location with that selector.                                *)
C4_SilentMiss ==
    [][ /\ ( /\ last'.op \in {"updateKeyInServer", "deleteKeyFromServer"}
             /\ NodesNamed(ServerChildren(files, Domain), last'.key) = <<>> )
            => (last'.outcome = "resolved" /\ files' = files)
        /\ ( /\ last'.op \in {"updateKeyInLocation", "deleteKeyFromLocation"}
             /\ LocationsHaving(files, Domain, last'.location, last'.key) = <<>> )
            => (last'.outcome = "resolved" /\ files' = files)
      ]_vars

\* An update has resolved for a selector that no location has, while another
\* location is there and the server block has no `root` to update either.
C4_Witness ==
    /\ Resolved(last, {"updateKeyInLocation"})
    /\ LocationNodes(files, Domain, last.location) = <<>>
    /\ NodesNamed(ServerChildren(files, Domain), "location") # <<>>
    /\ NodesNamed(ServerChildren(files, Domain), "root") = <<>>

----------------------------------------------------------------------------
(* C5.  Duplicate rejection.  addLocation with a selector that a location  *)
(* of the server block already has rejects and leaves the stored document  *)
(* as it was; so when an addLocation has added a location, the same call   *)
(* made again rejects, and the document holds exactly one such location.   *)
C5_DuplicateRejected ==
    [][ /\ ( /\ last'.op = "addLocation"
             /\ LocationNodes(files, Domain, last'.location) # <<>> )
            => (last'.outcome = "rejected" /\ files' = files)
        /\ ( /\ Resolved(last, {"addLocation"})
             /\ last'.op = "addLocation"
             /\ last'.location = last.location )
            => /\ last'.outcome = "rejected"
               /\ Len(LocationNodes(files', Domain, last'.location)) = 1
      ]_vars

\* An addLocation was rejected for its selector, which the second of the
\* two locations has.
C5_Witness ==
    /\ last.op = "addLocation"
    /\ last.outcome = "rejected"
    /\ Len(NodesNamed(ServerChildren(files, Domain), "location")) = 2
    /\ NodesNamed(ServerChildren(files, Domain), "location")[1].value # <<last.location>>
    /\ NodesNamed(ServerChildren(files, Domain), "location")[2].value = <<last.location>>

----------------------------------------------------------------------------
(* C6.  Selector uniqueness.  In runs of addLocation, deleteLocation and   *)
(* updateLocation that start from the created template, no two location    *)
(* blocks of the server block have the same selector.                      *)
C6_UniqueSelectors ==
    LET locations == NodesNamed(ServerChildren(files, Domain), "location") IN
    \A i, j \in 1..Len(locations) :
        i # j => locations[i].value # locations[j].value

----------------------------------------------------------------------------
\* A node after the rename of the locations `old` to `new`.
Renamed(n, old, new) ==
    IF n.name = "location" /\ n.value = <<old>> THEN [n EXCEPT !.value = <<new>>]
    ELSE n

----------------------------------------------------------------------------
(* C8.  Rename miss.  updateLocation(d, old, new), when no location has    *)
(* the selector old, resolves and leaves the stored document as it was.    *)
C8_RenameMiss ==
    [][ ( /\ last'.op = "updateLocation"
          /\ LocationNodes(files, Domain, last'.location) = <<>> )
        => (last'.outcome = "resolved" /\ files' = files)
      ]_vars

\* A rename has resolved on a document with locations, none of which has
\* the old or the new selector: it renamed nothing.
C8_Witness ==
    /\ Resolved(last, {"updateLocation"})
    /\ NodesNamed(ServerChildren(files, Domain), "location") # <<>>
    /\ LocationNodes(files, Domain, last.location) = <<>>
    /\ LocationNodes(files, Domain, last.to) = <<>>

----------------------------------------------------------------------------
RECURSIVE WithoutFirst(_, _)
\* The nodes without the first location that has the selector.
WithoutFirst(nodes, location) ==
    IF nodes = <<>> THEN <<>>
    ELSE IF Head(nodes).name = "location" /\ Head(nodes).value = <<location>>
         THEN Tail(nodes)
         ELSE <<Head(nodes)>> \o WithoutFirst(Tail(nodes), location)

(* C9.  Delete block.  deleteLocation(d, p) resolves and removes the first *)
(* location with selector p, and nothing else: every other node, a later   *)
(* location p included, stays, in the order it had; with no location p the *)
(* document is as it was.                                                  *)
C9_DeleteFirst ==
    [][ last'.op = "deleteLocation"
        => /\ last'.outcome = "resolved"
           /\ files'[Domain].exists
           /\ files'[Domain].doc =
                 [files[Domain].doc EXCEPT ![1].children =
                     WithoutFirst(@, last'.location)]
      ]_vars

----------------------------------------------------------------------------
(* What an edit of the directives makes of the children of one block that  *)
(* has no two directives with one key.                                     *)

ServerEdits ==
    {"addKeyToServer", "updateKeyInServer", "deleteKeyFromServer",
     "addMultipleKeysToServer", "updateMultipleKeysInServer",
     "deleteMultipleKeysFromServer"}

DirAdded(nodes, k, v) ==
    IF NodesNamed(nodes, k) = <<>> THEN Append(nodes, Directive(k, v)) ELSE nodes

DirUpdated(nodes, k, v) ==
    [i \in 1..Len(nodes) |-> IF nodes[i].name = k THEN Directive(k, v) ELSE nodes[i]]

DirDeleted(nodes, k) == SelectSeq(nodes, LAMBDA n : n.name # k)

RECURSIVE DirsAdded(_, _)
DirsAdded(nodes, pairs) ==
    IF pairs = <<>> THEN nodes
    ELSE DirsAdded(DirAdded(nodes, Head(pairs).key, Head(pairs).value), Tail(pairs))

RECURSIVE DirsUpdated(_, _)
DirsUpdated(nodes, pairs) ==
    IF pairs = <<>> THEN nodes
    ELSE DirsUpdated(DirUpdated(nodes, Head(pairs).key, Head(pairs).value), Tail(pairs))

RECURSIVE DirsDeleted(_, _)
DirsDeleted(nodes, keys) ==
    IF keys = <<>> THEN nodes
    ELSE DirsDeleted(DirDeleted(nodes, Head(keys)), Tail(keys))

Edited(nodes, call) ==
    CASE call.op = "addKeyToServer" -> DirAdded(nodes, call.key, call.value)
      [] call.op = "updateKeyInServer" -> DirUpdated(nodes, call.key, call.value)
      [] call.op = "deleteKeyFromServer" -> DirDeleted(nodes, call.key)
      [] call.op = "addMultipleKeysToServer" -> DirsAdded(nodes, call.pairs)
      [] call.op = "updateMultipleKeysInServer" -> DirsUpdated(nodes, call.pairs)
      [] call.op = "deleteMultipleKeysFromServer" -> DirsDeleted(nodes, call.keys)

----------------------------------------------------------------------------
(* C11.  First-match read.  getKeyValueFromServer(d, k) returns the value  *)
(* of the first directive k of the first server block of the document, or  *)
(* null when that block has none: never a value of a later server block or *)
(* of a later directive k.                                                 *)
C11_FirstMatchRead ==
    [][ last'.op = "getKeyValueFromServer"
        => LET found == NodesNamed(ServerChildren(files, Domain), last'.key) IN
           /\ last'.outcome = "resolved"
           /\ last'.ret = IF found = <<>> THEN Null ELSE Some(found[1].value)
      ]_vars

----------------------------------------------------------------------------
LocationOps ==
    {"addLocation", "deleteLocation", "updateLocation", "addKeyToLocation",
     "updateKeyInLocation", "deleteKeyFromLocation", "getKeyValueFromLocation",
     "getAllLocations"}

(* C12.  Nested lookup scope.  Every location operation looks for the      *)
(* location among the children of the first server block only: it leaves   *)
(* every later server block as it was, getAllLocations returns the         *)
(* selectors of the first server block's locations, and                    *)
(* getKeyValueFromLocation returns null when no location of the first      *)
(* server block has the selector and the key.                              *)
C12_FirstServerLocations ==
    [][ last'.op \in LocationOps
        => /\ files'[Domain].exists
           /\ \A s \in 2..Len(files[Domain].doc) :
                /\ s <= Len(files'[Domain].doc)
                /\ files'[Domain].doc[s] = files[Domain].doc[s]
           /\ last'.op = "getAllLocations" =>
                LET locations == NodesNamed(ServerChildren(files, Domain), "location") IN
                last'.ret = Some([i \in 1..Len(locations) |-> locations[i].value])
           /\ ( /\ last'.op = "getKeyValueFromLocation"
                /\ LocationsHaving(files, Domain, last'.location, last'.key) = <<>> )
                => last'.ret = Null
      ]_vars

----------------------------------------------------------------------------
(* C13.  addSubdomain(d, s) rejects when s.d is a token of server_name;    *)
(* otherwise, when it resolves, the server_name value is d, then the       *)
(* subdomains listed before in their order, then s.d, and a getSubdomains  *)
(* that follows contains s.d.  Stated for every reachable state, the one   *)
(* after deleteKeyFromServer(d, 'server_name') included.                   *)
C13_AddSubdomain ==
    [][ /\ last'.op = "addSubdomain" =>
            LET full == fullSubDomain(Domain, last'.key)
                tokens == NameTokens(files, Domain)
            IN  IF Includes(tokens, full) THEN last'.outcome = "rejected"
                ELSE last'.outcome = "resolved" =>
                        ServerName(files', Domain) =
                            Some(<<Domain>>
                                 \o SelectSeq(tokens, LAMBDA t : t # Domain)
                                 \o <<full>>)
        /\ (Resolved(last, {"addSubdomain"}) /\ last'.op = "getSubdomains") =>
            /\ last'.outcome = "resolved"
            /\ Includes(last'.ret[1], fullSubDomain(Domain, last.key))
      ]_vars

----------------------------------------------------------------------------
(* C14, as stated.  Subdomain round trip: when the server_name value       *)
(* starts with d and does not contain s.d, addSubdomain(d, s) followed by  *)
(* deleteSubdomain(d, s) returns server_name to the value it had.          *)
C14_RoundTrip ==
    [][ ( /\ Resolved(last, {"addSubdomain"})
          /\ last'.op = "deleteSubdomain"
          /\ last'.key = last.key
          /\ written # Null
          /\ written[1] # <<>>
          /\ written[1][1] = Domain
          /\ ~Includes(written[1], fullSubDomain(Domain, last.key)) )
        => /\ last'.outcome = "resolved"
           /\ ServerName(files', Domain) = written
      ]_vars

(* C14, amended.  Subdomain round trip: when the server_name value starts  *)
(* with d, holds d nowhere else and does not contain s.d, addSubdomain(d,  *)
(* s) followed by deleteSubdomain(d, s) returns server_name to the value   *)
(* it had.                                                                 *)
C14_RoundTripOneBase ==
    [][ ( /\ Resolved(last, {"addSubdomain"})
          /\ last'.op = "deleteSubdomain"
          /\ last'.key = last.key
          /\ written # Null
          /\ written[1] # <<>>
          /\ written[1][1] = Domain
          /\ \A i \in 2..Len(written[1]) : written[1][i] # Domain
          /\ ~Includes(written[1], fullSubDomain(Domain, last.key)) )
        => /\ last'.outcome = "resolved"
           /\ ServerName(files', Domain) = written
      ]_vars

\* A deleteSubdomain has taken the last name off a server_name that held the
\* domain and another subdomain before it.
C14_Witness ==
    /\ Resolved(last, {"deleteSubdomain"})
    /\ last.key = "api"
    /\ written = Some(<<Domain, "www.a.com", "api.a.com">>)
    /\ ServerName(files, Domain) = Some(<<Domain, "www.a.com">>)

----------------------------------------------------------------------------
----------------------------------------------------------------------------
(* C16.  Base domain first.  From the created template, after any run of   *)
(* addSubdomain and deleteSubdomain the first token of server_name is d,   *)
(* and getSubdomains returns the tokens after it, in their order, none of  *)
(* them d.                                                                 *)
C16_BaseDomainFirst ==
    LET tokens == NameTokens(files, Domain) IN
    /\ tokens # <<>>
    /\ tokens[1] = Domain
    /\ last.op = "getSubdomains" =>
            /\ last.outcome = "resolved"
            /\ last.ret = Some(Tail(tokens))
            /\ ~Includes(last.ret[1], Domain)

\* getSubdomains has returned two subdomains, in the order of their adds.
C16_Witness ==
    /\ Resolved(last, {"getSubdomains"})
    /\ last.ret = Some(<<"www.a.com", "api.a.com">>)
    /\ ServerName(files, Domain) = Some(<<Domain, "www.a.com", "api.a.com">>)

----------------------------------------------------------------------------
\* The directives among the nodes, as key and value, in their order.
DirectivePairs(nodes) ==
    LET directives == SelectSeq(nodes, LAMBDA n : n.name # "location") IN
    [i \in 1..Len(directives) |->
        [key |-> directives[i].name, value |-> directives[i].value]]

(* C17.  Ordered read-back.  getAllKeyValuesFromServer(d) returns the      *)
(* directives of the server block, one entry per key, in the order in      *)
(* which they were added, and getAllKeyValuesFromLocation(d, loc) those of *)
(* the location; neither has an entry for a nested block such as           *)
(* 'location'.                                                             *)
C17_OrderedReadBack ==
    [][ /\ last'.op = "getAllKeyValuesFromServer" =>
            /\ last'.outcome = "resolved"
            /\ last'.ret = Some(DirectivePairs(ServerChildren(files, Domain)))
        /\ ( /\ last'.op = "getAllKeyValuesFromLocation"
             /\ LocationNodes(files, Domain, last'.location) # <<>> )
            => /\ last'.outcome = "resolved"
               /\ last'.ret = Some(DirectivePairs(
                        LocationNodes(files, Domain, last'.location)[1].children))
      ]_vars

----------------------------------------------------------------------------
\* The names of the nodes, in their order.
Names(nodes) == [i \in 1..Len(nodes) |-> nodes[i].name]

IsPrefix(a, b) == Len(a) <= Len(b) /\ SubSeq(b, 1, Len(a)) = a

RECURSIVE IsSubseq(_, _)
\* a is b with some elements left out.
IsSubseq(a, b) ==
    IF a = <<>> THEN TRUE
    ELSE IF b = <<>> THEN FALSE
    ELSE IF Head(a) = Head(b) THEN IsSubseq(Tail(a), Tail(b))
    ELSE IsSubseq(a, Tail(b))

(* C18.  Order preservation.  Every mutation keeps the order of the        *)
(* directives and blocks it leaves in place, and a directive or location   *)
(* block that is added goes after all the children its parent block had:   *)
(* after an add to the server block its former children are the first of   *)
(* its children, unchanged; after an add to a location the same holds in   *)
(* each location; after any other mutation the children of the server      *)
(* block are, by name, its former children with some left out.             *)
C18_OrderPreserved ==
    [][ last'.outcome = "resolved" =>
            LET was == ServerChildren(files, Domain)
                now == ServerChildren(files', Domain)
            IN  CASE last'.op \in {"addKeyToServer", "addMultipleKeysToServer",
                                   "addLocation"} ->
                        IsPrefix(was, now)
                  [] last'.op \in {"addKeyToLocation", "addMultipleKeysToLocation"} ->
                        /\ Names(now) = Names(was)
                        /\ \A i \in 1..Len(was) :
                                /\ now[i].value = was[i].value
                                /\ IsPrefix(was[i].children, now[i].children)
                  [] last'.op \in {"updateKeyInServer", "deleteKeyFromServer",
                                   "deleteLocation", "updateLocation",
                                   "addSubdomain", "deleteSubdomain"} ->
                        IsSubseq(Names(now), Names(was))
                  [] OTHER -> TRUE
      ]_vars

----------------------------------------------------------------------------
DocumentOps ==
    {"addKeyToServer", "updateKeyInServer", "deleteKeyFromServer",
     "addKeyToLocation", "updateKeyInLocation", "deleteKeyFromLocation",
     "addLocation", "deleteLocation",
     "getSubdomains", "addSubdomain", "deleteSubdomain"}

(* C19.  Missing document.  A directive, location or subdomain operation   *)
(* called for a domain that has no config file rejects; no file is made    *)
(* for the domain and the file of every other domain is as it was.         *)
C19_MissingDocument ==
    [][ (last'.op \in DocumentOps /\ ~files[last'.domain].exists)
        => (last'.outcome = "rejected" /\ files' = files)
      ]_vars

\* An addKeyToServer with a key was rejected for the domain that has no
\* file, while the other domain has its file with a location in it.
C19_Witness ==
    /\ last.op = "addKeyToServer"
    /\ last.key # ""
    /\ last.domain = OtherDomain
    /\ last.outcome = "rejected"
    /\ ~files[OtherDomain].exists
    /\ LocationNodes(files, Domain, "/") # <<>>

----------------------------------------------------------------------------
(* C20.  Blank identifiers.  An add that is given a blank identifier       *)
(* rejects and leaves the stored document as it was: addKeyToServer and    *)
(* addKeyToLocation with an empty key, addMultipleKeysToServer and         *)
(* addMultipleKeysToLocation with an empty key among their keys, and       *)
(* addLocation with an empty selector.                                     *)
C20_BlankRejected ==
    [][ ( \/ last'.op \in {"addKeyToServer", "addKeyToLocation"} /\ last'.key = ""
          \/ /\ last'.op \in {"addMultipleKeysToServer", "addMultipleKeysToLocation"}
             /\ \E i \in 1..Len(last'.pairs) : last'.pairs[i].key = ""
          \/ last'.op = "addLocation" /\ last'.location = "" )
        => (last'.outcome = "rejected" /\ files' = files)
      ]_vars

----------------------------------------------------------------------------
(* C21.  No partial write.  In a sequential run, whenever a public         *)
(* operation rejects, the stored document of every domain and the enabled  *)
(* state of every domain are exactly what they were before the call.       *)
C21_NoPartialWrite ==
    [][ last'.outcome = "rejected"
        => /\ files' = files
           /\ \A d \in DOMAIN files :
                Enabled(files', enabled', d) = Enabled(files, enabled, d)
      ]_vars

----------------------------------------------------------------------------
\* The stored server block of the domain has a directive with the key.
HasKey(fs, domain, key) == NodesNamed(ServerChildren(fs, domain), key) # <<>>

(* C22.  Lost-update race.  No lock or version check stands between two    *)
(* overlapping edits of one domain: every write that ends leaves in the    *)
(* file exactly the text its call serialised from what it had read itself, *)
(* whatever the file holds by then.  So both calls can read the same old   *)
(* document, both resolve, and the file keeps one of the two edits only.   *)
C22_LastWriteWins ==
    [][ \A c \in Callers :
            Len(calls'[c].flights) < Len(calls[c].flights)
            => \E i \in 1..Len(calls[c].flights) :
                /\ calls'[c].flights = RemoveAt(calls[c].flights, i)
                /\ files'[calls[c].call.domain] = File(calls[c].flights[i].text)
      ]_vars

\* Both callers' addKeyToServer, with different keys, read the created
\* template and have resolved, every write has ended, and the file has the
\* key of exactly one of them.
C22_LostUpdate ==
    /\ \A c \in Callers :
        /\ calls[c].phase = "done"
        /\ calls[c].call.op = "addKeyToServer"
        /\ calls[c].call.outcome = "resolved"
        /\ calls[c].flights = <<>>
        /\ calls[c].snapshot = Template(Domain)
    /\ calls[1].call.key # calls[2].call.key
    /\ HasKey(files, Domain, calls[1].call.key)
        # HasKey(files, Domain, calls[2].call.key)

----------------------------------------------------------------------------
(* C23.  One transaction per operation.  An editing operation, addSubdomain *)
(* and deleteSubdomain included, reads the stored document once, and from   *)
(* its read until its write has ended no write of another caller takes     *)
(* effect on the document.                                                 *)
C23_OneTransaction ==
    /\ [](\A c \in Callers : calls[c].round <= 1)
    /\ [][ \A c \in Callers, o \in Callers :
            (o # c /\ calls[c].phase = "write")
            => Len(calls'[o].flights) >= Len(calls[o].flights)
         ]_vars

----------------------------------------------------------------------------
\* The document, as a call has read it, has a server directive with the key.
ReadKey(doc, key) == HasKey([d \in Domains |-> File(doc)], Domain, key)

----------------------------------------------------------------------------
\* The stored document after the single-key operation that goes with the
\* batch operation `op`, called with one key (and value); a call that
\* rejects leaves the document.
AfterSingle(op, doc, location, key, value) ==
    CASE op = "addMultipleKeysToServer" ->
            IF key = "" THEN doc
            ELSE processServerBlock(doc,
                    [type |-> "addKey", key |-> key, value |-> value])
      [] op = "updateMultipleKeysInServer" ->
            processServerBlock(doc,
                [type |-> "updateKey", key |-> key, value |-> value])
      [] op = "deleteMultipleKeysFromServer" ->
            processServerBlock(doc, [type |-> "deleteKey", key |-> key])
      [] op = "addMultipleKeysToLocation" ->
            processLocationBlocks(doc,
                [type |-> "addKey", location |-> location, key |-> key,
                 value |-> value])
      [] op = "updateMultipleKeysInLocation" ->
            processLocationBlocks(doc,
                [type |-> "updateKey", location |-> location, key |-> key,
                 value |-> value])
      [] op = "deleteMultipleKeysFromLocation" ->
            processLocationBlocks(doc,
                [type |-> "deleteKey", location |-> location, key |-> key])

RECURSIVE AfterSingles(_, _, _, _)
\* The document after one single-key call per item, in the order of the items.
AfterSingles(op, doc, location, items) ==
    IF items = <<>> THEN doc
    ELSE AfterSingles(op,
            AfterSingle(op, doc, location, Head(items).key, Head(items).value),
            location, Tail(items))

BatchOps ==
    {"addMultipleKeysToServer", "updateMultipleKeysInServer",
     "deleteMultipleKeysFromServer", "addMultipleKeysToLocation",
     "updateMultipleKeysInLocation", "deleteMultipleKeysFromLocation"}

\* The pairs of a batch call; a key of a delete batch is a pair without value.
ItemsOfCall(call) ==
    IF call.pairs # <<>> THEN call.pairs
    ELSE [i \in 1..Len(call.keys) |-> [key |-> call.keys[i], value |-> <<>>]]

(* C25.  Batch equals sequence.  In a sequential run the document after a  *)
(* batch operation equals the document after the corresponding single-key  *)
(* operation called once per pair or key, in the same order.               *)
C25_BatchEqualsSequence ==
    [][ (last'.op \in BatchOps /\ ItemsOfCall(last') # <<>>)
        => files'[last'.domain].doc =
            AfterSingles(last'.op, files[last'.domain].doc,
                         last'.location, ItemsOfCall(last'))
      ]_vars

----------------------------------------------------------------------------
(* C26.  createConfigFile(d) rejects when d is the empty string and when d *)
(* has a config file, and leaves every file as it was; otherwise it        *)
(* resolves and d's document is one server block with the directives       *)
(* listen 80 and server_name d, in that order, and nothing else, and       *)
(* checkConfigFileExists(d) answers true from then on.                     *)
C26_CreateConfigFile ==
    [][ /\ last'.op = "createConfigFile"
           => IF last'.domain = "" THEN last'.outcome = "rejected" /\ files' = files
              ELSE IF files[last'.domain].exists
              THEN last'.outcome = "rejected" /\ files' = files
              ELSE /\ last'.outcome = "resolved"
                   /\ files' = [files EXCEPT ![last'.domain] =
                        [exists |-> TRUE,
                         doc |-> <<[name |-> "server", value |-> <<>>,
                                    children |->
                                      <<[name |-> "listen", value |-> <<"80">>,
                                         children |-> <<>>],
                                        [name |-> "server_name",
                                         value |-> <<last'.domain>>,
                                         children |-> <<>>]>>]>>]]
        /\ last'.op = "checkConfigFileExists"
           => last'.ret = Some(files'[last'.domain].exists)
      ]_vars

\* The second domain, which had no file, has been given one by
\* createConfigFile while the first has a location in its file.
C26_Created ==
    /\ last.op = "createConfigFile"
    /\ last.domain = OtherDomain
    /\ last.outcome = "resolved"
    /\ files[OtherDomain].exists
    /\ LocationNodes(files, Domain, "/") # <<>>

----------------------------------------------------------------------------
(* C27.  Enable/disable lifecycle.  enableConfigFile(d) rejects when d has *)
(* no config file, resolves without a change when d is enabled, and        *)
(* otherwise makes checkConfigFileEnabled(d) true; disableConfigFile(d)    *)
(* rejects when d is not enabled and otherwise makes                       *)
(* checkConfigFileEnabled(d) false; neither changes a document.            *)
C27_EnableDisable ==
    [][ /\ last'.op = "enableConfigFile"
           => /\ files' = files
              /\ IF ~files[last'.domain].exists
                 THEN last'.outcome = "rejected" /\ enabled' = enabled
                 ELSE IF last'.domain \in enabled
                 THEN last'.outcome = "resolved" /\ enabled' = enabled
                 ELSE /\ last'.outcome = "resolved"
                      /\ Enabled(files', enabled', last'.domain)
        /\ last'.op = "disableConfigFile"
           => /\ files' = files
              /\ IF ~(last'.domain \in enabled /\ files[last'.domain].exists)
                 THEN last'.outcome = "rejected" /\ enabled' = enabled
                 ELSE /\ last'.outcome = "resolved"
                      /\ ~Enabled(files', enabled', last'.domain)
        /\ last'.op = "checkConfigFileEnabled"
           => last'.ret = Some(last'.domain \in enabled' /\ files'[last'.domain].exists)
      ]_vars

\* A domain that was enabled has been disabled, and its file is there with
\* a location in it.
C27_Disabled ==
    /\ last.op = "disableConfigFile"
    /\ last.outcome = "resolved"
    /\ last.domain = Domain
    /\ Domain \notin enabled
    /\ LocationNodes(files, Domain, "/") # <<>>

----------------------------------------------------------------------------
(* C28.  Domain isolation.  A directive, location or subdomain edit, a     *)
(* create, a delete, an enable or a disable called for one domain leaves   *)
(* the stored document, the existence and the enabled state of every other *)
(* domain as they were.                                                    *)
C28_DomainIsolation ==
    [][ \A b \in DOMAIN files :
            b # last'.domain
            => /\ files'[b] = files[b]
               /\ Enabled(files', enabled', b) = Enabled(files, enabled, b)
      ]_vars

\* The first domain, enabled and with a key, a location and a subdomain in
\* its file, is as it is after a disable of the second domain.
C28_OtherDisabled ==
    /\ last.op = "disableConfigFile"
    /\ last.domain = OtherDomain
    /\ last.outcome = "resolved"
    /\ files[OtherDomain].exists
    /\ Enabled(files, enabled, Domain)
    /\ HasKey(files, Domain, "root")
    /\ LocationNodes(files, Domain, "/") # <<>>
    /\ Len(NameTokens(files, Domain)) = 2

----------------------------------------------------------------------------
LocationKeyOps ==
    {"addKeyToLocation", "updateKeyInLocation", "deleteKeyFromLocation",
     "addMultipleKeysToLocation", "updateMultipleKeysInLocation",
     "deleteMultipleKeysFromLocation"}

\* The children of the server block other than the locations with the
\* selector: its directives and its other locations, with all they hold.
Elsewhere(fs, domain, location) ==
    SelectSeq(ServerChildren(fs, domain),
              LAMBDA n : ~(n.name = "location" /\ n.value = <<location>>))

(* C29.  Location isolation.  A key operation on location p, single or     *)
(* batch, changes nothing but the directives of the locations whose        *)
(* selector is p, and deleteLocation(d, p) removes nothing but locations   *)
(* whose selector is p: every location with another selector and every     *)
(* directive of the server block is as it was.                             *)
C29_LocationIsolation ==
    [][ /\ last'.op \in LocationKeyOps \cup {"deleteLocation"}
           => Elsewhere(files', last'.domain, last'.location)
                = Elsewhere(files, last'.domain, last'.location)
        /\ last'.op \in LocationKeyOps
           => Len(LocationNodes(files', last'.domain, last'.location))
                = Len(LocationNodes(files, last'.domain, last'.location))
      ]_vars

\* A key was added to location /api while location / has none and the
\* server block has a directive of its own after the template's.
C29_OneLocationEdited ==
    /\ last.op = "addKeyToLocation"
    /\ last.location = "/api"
    /\ last.outcome = "resolved"
    /\ LocationsHaving(files, Domain, "/api", "alias") # <<>>
    /\ LocationNodes(files, Domain, "/") # <<>>
    /\ LocationsHaving(files, Domain, "/", "alias") = <<>>
    /\ HasKey(files, Domain, "root")

----------------------------------------------------------------------------
(* C30.  Completion.  Every public operation called on an existing config  *)
(* file resolves or rejects, whatever readable document the file holds: no *)
(* call is left with a promise that is never settled.                      *)
C30_Completion ==
    files[last.domain].exists => last.outcome \in {"resolved", "rejected"}

----------------------------------------------------------------------------
----------------------------------------------------------------------------
(* C32.  Absent results.  On an existing file getKeyValueFromLocation      *)
(* resolves, with null when no location has the selector or none of them   *)
(* has the key, and with a value otherwise; getAllKeyValuesFromLocation    *)
(* resolves, with null exactly when no location has the selector and with  *)
(* a mapping, which may be empty, otherwise.                               *)
C32_AbsentResults ==
    [][ /\ last'.op = "getKeyValueFromLocation"
           => /\ last'.outcome = "resolved"
              /\ (last'.ret = Null) <=>
                    LocationsHaving(files, last'.domain, last'.location, last'.key) = <<>>
        /\ last'.op = "getAllKeyValuesFromLocation"
           => /\ last'.outcome = "resolved"
              /\ (last'.ret = Null) <=>
                    LocationNodes(files, last'.domain, last'.location) = <<>>
      ]_vars

\* getAllKeyValuesFromLocation has answered with the empty mapping for a
\* location that is there and has no directive.
C32_EmptyMapping ==
    /\ last.op = "getAllKeyValuesFromLocation"
    /\ last.outcome = "resolved"
    /\ last.ret = Some(<<>>)
    /\ LocationNodes(files, Domain, last.location) # <<>>

----------------------------------------------------------------------------
(* C33.  Queries do not write.  A query never changes the stored document: *)
(* no write of a query call ever ends on the file, and when a query and an *)
(* add of a key overlap on one domain, the key is in the stored document   *)
(* once both have resolved and every write has ended.                      *)
C33_QueriesDoNotWrite ==
    /\ [](\A c \in Callers :
            calls[c].call.op = "getKeyValueFromServer" => calls[c].flights = <<>>)
    /\ []((\A c \in Callers : calls[c].phase = "done" /\ calls[c].flights = <<>>)
          => \A c \in Callers :
                (calls[c].call.op = "addKeyToServer"
                 /\ calls[c].call.outcome = "resolved")
                => HasKey(files, Domain, calls[c].call.key))

----------------------------------------------------------------------------
(* C34.  No dangling enable link.  After any sequence of createConfigFile, *)
(* enableConfigFile, disableConfigFile, deleteConfigFile and               *)
(* updateConfigFile calls, every domain that has a link in sites-enabled   *)
(* has a config file in sites-available.                                   *)
C34_NoDanglingLink == \A d \in enabled : files[d].exists

----------------------------------------------------------------------------
(* C35.  A new config starts disabled.  When createConfigFile(d) has       *)
(* resolved, and when updateConfigFile(old, d) has resolved, d is not      *)
(* enabled: checkConfigFileEnabled(d) is false until enableConfigFile(d)   *)
(* is called.                                                              *)
C35_StartsDisabled ==
    [][ /\ (last'.op = "createConfigFile" /\ last'.outcome = "resolved")
           => ~Enabled(files', enabled', last'.domain)
        /\ (last'.op = "updateConfigFile" /\ last'.outcome = "resolved")
           => ~Enabled(files', enabled', last'.to)
      ]_vars

----------------------------------------------------------------------------
(* C36.  The contract of updateConfigFile(d, d2).  It rejects and changes  *)
(* nothing when d or d2 is empty, when d has no config file, when d is     *)
(* enabled or when d2 has a config file; otherwise it resolves, d has no   *)
(* config file, d2 has the very document d had, server_name included, and  *)
(* no other file and no link is changed.                                   *)
C36_UpdateConfigFile ==
    [][ last'.op = "updateConfigFile"
        => LET d == last'.domain
               d2 == last'.to
           IN  IF d = "" \/ d2 = ""
               THEN last'.outcome = "rejected" /\ UNCHANGED <<files, enabled>>
               ELSE IF \/ ~files[d].exists
                       \/ Enabled(files, enabled, d)
                       \/ files[d2].exists
               THEN last'.outcome = "rejected" /\ UNCHANGED <<files, enabled>>
               ELSE /\ last'.outcome = "resolved"
                    /\ ~files'[d].exists
                    /\ files'[d2] = files[d]
                    /\ KeyValueOfServers(Servers(Parse(files'[d2].doc)),
                                         "server_name", Null)
                       = KeyValueOfServers(Servers(Parse(files[d].doc)),
                                           "server_name", Null)
                    /\ \A o \in DOMAIN files \ {d, d2} : files'[o] = files[o]
                    /\ enabled' = enabled
      ]_vars

\* A file with a location has been renamed; it still names its first
\* domain in server_name, and a third domain has its file and its link.
C36_Renamed ==
    /\ last.op = "updateConfigFile"
    /\ last.outcome = "resolved"
    /\ last.domain = Domain
    /\ last.to = OtherDomain
    /\ ~files[Domain].exists
    /\ files[OtherDomain].exists
    /\ NumLocations(OtherDomain) = 1
    /\ NameTokens(files, OtherDomain) = <<Domain>>
    /\ Enabled(files, enabled, ThirdDomain)

----------------------------------------------------------------------------
(* C37.  No duplicate hostnames.  From the created template, in every run  *)
(* of addSubdomain and deleteSubdomain calls on the domain, one after      *)
(* another or overlapping, the value of server_name never holds the same   *)
(* hostname twice.                                                         *)
C37_NoDuplicateHostnames ==
    LET tokens == NameTokens(files, Domain) IN
    \A i \in 1..Len(tokens), j \in 1..Len(tokens) :
        tokens[i] = tokens[j] => i = j

----------------------------------------------------------------------------
(* C38.  createConfigFile never overwrites.  While createConfigFile calls  *)
(* and edits of one domain overlap, a stored document that holds an edit   *)
(* is never replaced by the template, and of two overlapping               *)
(* createConfigFile calls at most one resolves.                            *)
C38_NeverOverwrites ==
    /\ [][ (files[Domain].exists /\ files[Domain].doc # Template(Domain))
           => files'[Domain].doc # Template(Domain) ]_vars
    /\ [] ~(\A c \in Callers :
                /\ calls[c].call.op = "createConfigFile"
                /\ calls[c].call.outcome = "resolved")

====
